---- MODULE Spec2Model ----
(***************************************************************************)
(* Conversational session and model-routing engine of bedrock-mcp-agent:   *)
(* the per-session history buffer and model adapter of BedrockMCPAgent     *)
(* (bedrock_mcp_agent.py), the chat / clear / summary handlers and the     *)
(* keyword classifier of the Flask backend (app.py), and the catalog       *)
(* operations of GlueCatalogMCP (glue_mcp_server.py).                      *)
(*                                                                         *)
(* A Python str is a sequence of one-character strings, so that strip,     *)
(* lower, split and the substring test `in` are computed, not assumed.     *)
(* The characters "i^" and "a^" stand for the accented letters of the      *)
(* Spanish keywords.  A dict is a function whose DOMAIN is its key set.    *)
(***************************************************************************)
EXTENDS Integers, Sequences, FiniteSets, TLC

VARIABLES
    glue_mcp,        \* app.py glue_mcp: TRUE when GlueCatalogMCP() was built at import
    agents,          \* the BedrockMCPAgent objects created so far, by object identity
    session_agents,  \* app.py session_agents: session id -> agent identity (0: no entry)
    clock,           \* datetime.now(), as a logical clock read by every append
    th,              \* position and locals of the request each worker thread is serving
    appended,        \* history variable: per agent, the turns appended since its last clear
    nreq             \* number of requests received so far

vars == <<glue_mcp, agents, session_agents, clock, th, appended, nreq>>

----------------------------------------------------------------------------
(* Bounds of the model *)

MaxRequests == 2
MaxLongRequests == 12
MaxCatalogRequests == 1
MaxClampRequests == 1
MaxAdapterCalls == 1
MaxAwsAnswers == 2
MaxRegistryRequests == 2
MaxBufferCalls == 5
MaxCapacityRequests == 2

----------------------------------------------------------------------------
(* Python str operations *)

UpperChars == <<"A", "B", "C", "D", "E", "F", "G", "H", "I", "J", "K", "L", "M",
                "N", "O", "P", "Q", "R", "S", "T", "U", "V", "W", "X", "Y", "Z">>
LowerChars == <<"a", "b", "c", "d", "e", "f", "g", "h", "i", "j", "k", "l", "m",
                "n", "o", "p", "q", "r", "s", "t", "u", "v", "w", "x", "y", "z">>

LowerChar(c) ==
    IF \E i \in 1..Len(UpperChars) : UpperChars[i] = c
    THEN LowerChars[CHOOSE i \in 1..Len(UpperChars) : UpperChars[i] = c]
    ELSE c

\* str.lower()
Lower(s) == [i \in 1..Len(s) |-> LowerChar(s[i])]

Whitespace == {" ", "\t", "\n"}

RECURSIVE LStripChars(_, _)
LStripChars(s, cs) ==
    IF s # <<>> /\ Head(s) \in cs THEN LStripChars(Tail(s), cs) ELSE s

RECURSIVE RStripChars(_, _)
RStripChars(s, cs) ==
    IF s # <<>> /\ s[Len(s)] \in cs
    THEN RStripChars(SubSeq(s, 1, Len(s) - 1), cs)
    ELSE s

\* str.strip(chars)
StripChars(s, cs) == RStripChars(LStripChars(s, cs), cs)

\* str.strip()
Strip(s) == StripChars(s, Whitespace)

\* sub in s
Contains(sub, s) ==
    \E i \in 0..(Len(s) - Len(sub)) : SubSeq(s, i + 1, i + Len(sub)) = sub

\* any(word in s for word in words)
AnyIn(words, s) == \E w \in words : Contains(w, s)

StartsWith(s, p) == Len(s) >= Len(p) /\ SubSeq(s, 1, Len(p)) = p
EndsWith(s, p) == Len(s) >= Len(p) /\ SubSeq(s, Len(s) - Len(p) + 1, Len(s)) = p

RECURSIVE SplitFrom(_, _, _)
SplitFrom(s, cur, acc) ==
    IF s = <<>>
    THEN IF cur = <<>> THEN acc ELSE Append(acc, cur)
    ELSE IF Head(s) \in Whitespace
         THEN SplitFrom(Tail(s), <<>>, IF cur = <<>> THEN acc ELSE Append(acc, cur))
         ELSE SplitFrom(Tail(s), Append(cur, Head(s)), acc)

\* str.split()
Split(s) == SplitFrom(s, <<>>, <<>>)

\* dict.get(key, default)
Get(d, key, default) == IF key \in DOMAIN d THEN d[key] ELSE default

\* s[:n]
Prefix(s, n) == IF Len(s) > n THEN SubSeq(s, 1, n) ELSE s

\* s[-n:]
LastN(s, n) == IF Len(s) > n THEN SubSeq(s, Len(s) - n + 1, Len(s)) ELSE s

----------------------------------------------------------------------------
(* BedrockMCPAgent: history buffer *)

HistoryLimit == 20
ContextWindow == 10
PreviewWindow == 3
PreviewChars == 100

\* last_message_time of an empty history (None); timestamps start at 1
NoTime == 0

ROLE_USER == "user"
ROLE_ASSISTANT == "assistant"

NewAgent == [conversation_history |-> <<>>]

Message(role, content, now) ==
    [role |-> role, content |-> content, timestamp |-> now]

\* a slip of add_message_to_history: at capacity the slice keeps the front
add_message_keeps_oldest(history, role, content, now) ==
    LET grown == Append(history, Message(role, content, now))
    IN  IF Len(grown) > HistoryLimit THEN SubSeq(grown, 1, HistoryLimit) ELSE grown

\* a slip of add_message_to_history: the capacity is the odd number 19
add_message_to_history_odd_capacity(history, role, content, now) ==
    LET grown == Append(history, Message(role, content, now))
    IN  IF Len(grown) > HistoryLimit - 1 THEN LastN(grown, HistoryLimit - 1) ELSE grown

\* add_message_to_history: append, then keep the last 20
add_message_to_history(history, role, content, now) ==
    LET grown == Append(history, Message(role, content, now))
    IN  IF Len(grown) > HistoryLimit THEN LastN(grown, HistoryLimit) ELSE grown

\* a slip of clear_conversation: the oldest turn is dropped, not the whole list
clear_drops_oldest(history) == IF history = <<>> THEN <<>> ELSE Tail(history)

\* clear_conversation
clear_conversation(history) == <<>>

\* a slip of get_conversation_context: the oldest ten messages are taken
get_conversation_context_oldest_ten(history) ==
    IF history = <<>>
    THEN <<>>
    ELSE LET recent == Prefix(history, ContextWindow)
         IN  <<[part |-> "conversation_heading"]>> \o
             [i \in 1..Len(recent) |->
                 [part    |-> "conversation_line",
                  label   |-> IF recent[i].role = ROLE_USER THEN "Usuario" ELSE "Asistente",
                  content |-> recent[i].content]]

\* get_conversation_context: "" for an empty history, otherwise a heading line
\* followed by one labelled line per message of history[-10:]
get_conversation_context(history) ==
    IF history = <<>>
    THEN <<>>
    ELSE LET recent == LastN(history, ContextWindow)
         IN  <<[part |-> "conversation_heading"]>> \o
             [i \in 1..Len(recent) |->
                 [part    |-> "conversation_line",
                  label   |-> IF recent[i].role = ROLE_USER THEN "Usuario" ELSE "Asistente",
                  content |-> recent[i].content]]

Ellipsis == <<".", ".", ".">>

\* a slip of get_conversation_summary: a content of exactly 100 characters is
\* marked as cut
get_conversation_summary_marks_at_100(history) ==
    [total_messages      |-> Len(history),
     conversation_active |-> Len(history) > 0,
     last_message_time   |-> IF history # <<>> THEN history[Len(history)].timestamp ELSE NoTime,
     messages_preview    |->
        LET recent == LastN(history, PreviewWindow)
        IN  [i \in 1..Len(recent) |->
                [role      |-> recent[i].role,
                 content   |-> IF Len(recent[i].content) >= PreviewChars
                               THEN Prefix(recent[i].content, PreviewChars) \o Ellipsis
                               ELSE recent[i].content,
                 timestamp |-> recent[i].timestamp]]]

\* get_conversation_summary
get_conversation_summary(history) ==
    [total_messages      |-> Len(history),
     conversation_active |-> Len(history) > 0,
     last_message_time   |-> IF history # <<>> THEN history[Len(history)].timestamp ELSE NoTime,
     messages_preview    |->
        LET recent == LastN(history, PreviewWindow)
        IN  [i \in 1..Len(recent) |->
                [role      |-> recent[i].role,
                 content   |-> IF Len(recent[i].content) > PreviewChars
                               THEN Prefix(recent[i].content, PreviewChars) \o Ellipsis
                               ELSE recent[i].content,
                 timestamp |-> recent[i].timestamp]]]

----------------------------------------------------------------------------
(* BedrockMCPAgent: context composer and model adapter *)

FIXED_MODEL_ID == <<"a", "n", "t", "h", "r", "o", "p", "i", "c", ".", "c", "l", "a", "u", "d", "e", "-", "3", "-", "s", "o", "n", "n", "e", "t", "-", "2", "0", "2", "4", "0", "2", "2", "9", "-", "v", "1", ":", "0">>

FAMILY_A == "claude-3"
FAMILY_B == "claude"
FAMILY_C == "titan"
FAMILY_GENERIC == "generic"

\* a slip of the chain: the test for 'claude' comes before the test for 'claude-3'
request_family_claude_first(model_id) ==
    IF Contains(<<"c", "l", "a", "u", "d", "e">>, Lower(model_id)) THEN FAMILY_B
    ELSE IF Contains(<<"c", "l", "a", "u", "d", "e", "-", "3">>, Lower(model_id)) THEN FAMILY_A
    ELSE IF Contains(<<"t", "i", "t", "a", "n">>, Lower(model_id)) THEN FAMILY_C
    ELSE FAMILY_GENERIC

\* the if / elif chain on model_id.lower() of invoke_conversational_model
request_family(model_id) ==
    IF Contains(<<"c", "l", "a", "u", "d", "e", "-", "3">>, Lower(model_id)) THEN FAMILY_A
    ELSE IF Contains(<<"c", "l", "a", "u", "d", "e">>, Lower(model_id)) THEN FAMILY_B
    ELSE IF Contains(<<"t", "i", "t", "a", "n">>, Lower(model_id)) THEN FAMILY_C
    ELSE FAMILY_GENERIC

\* a slip of the chain of _extract_response_text: the id is tested as written,
\* without lower()
response_family_case_sensitive(model_id) ==
    IF Contains(<<"c", "l", "a", "u", "d", "e", "-", "3">>, model_id) THEN FAMILY_A
    ELSE IF Contains(<<"c", "l", "a", "u", "d", "e">>, model_id) THEN FAMILY_B
    ELSE IF Contains(<<"t", "i", "t", "a", "n">>, model_id) THEN FAMILY_C
    ELSE FAMILY_GENERIC

\* the if / elif chain on model_id.lower() of _extract_response_text
response_family(model_id) ==
    IF Contains(<<"c", "l", "a", "u", "d", "e", "-", "3">>, Lower(model_id)) THEN FAMILY_A
    ELSE IF Contains(<<"c", "l", "a", "u", "d", "e">>, Lower(model_id)) THEN FAMILY_B
    ELSE IF Contains(<<"t", "i", "t", "a", "n">>, Lower(model_id)) THEN FAMILY_C
    ELSE FAMILY_GENERIC

\* a slip of the composer: the conversation block is added before the catalog block
compose_prompt_history_first(glue_context, conversation_context, user_message) ==
    <<[part |-> "system_prompt"]>>
    \o (IF conversation_context # <<>> THEN conversation_context ELSE <<>>)
    \o (IF glue_context # <<>>
        THEN <<[part |-> "glue_heading"], [part |-> "glue_context", text |-> glue_context]>>
        ELSE <<>>)
    \o <<[part |-> "user_turn", content |-> user_message], [part |-> "assistant_cue"]>>

\* full_prompt: the system prompt, the catalog block when glue_context is non-empty,
\* the conversation block when it is non-empty, the user turn and the assistant cue
compose_prompt(glue_context, conversation_context, user_message) ==
    <<[part |-> "system_prompt"]>>
    \o (IF glue_context # <<>>
        THEN <<[part |-> "glue_heading"], [part |-> "glue_context", text |-> glue_context]>>
        ELSE <<>>)
    \o (IF conversation_context # <<>> THEN conversation_context ELSE <<>>)
    \o <<[part |-> "user_turn", content |-> user_message], [part |-> "assistant_cue"]>>

\* the request body built for the model's family
build_request_body(model_id, full_prompt, max_tokens, temperature) ==
    LET family == request_family(model_id)
    IN  IF family = FAMILY_A
        THEN [anthropic_version |-> "bedrock-2023-05-31",
              max_tokens        |-> max_tokens,
              temperature       |-> temperature,
              messages          |-> <<[role |-> "user", content |-> full_prompt]>>]
        ELSE IF family = FAMILY_B
        THEN [prompt               |-> <<[part |-> "human_cue"]>> \o full_prompt
                                       \o <<[part |-> "assistant_cue"]>>,
              max_tokens_to_sample |-> max_tokens,
              temperature          |-> temperature,
              top_p                |-> 1]
        ELSE IF family = FAMILY_C
        THEN [inputText            |-> full_prompt,
              textGenerationConfig |-> [maxTokenCount |-> max_tokens,
                                        temperature   |-> temperature,
                                        topP          |-> 1]]
        ELSE [prompt      |-> full_prompt,
              max_tokens  |-> max_tokens,
              temperature |-> temperature]

\* a list element of a response that is not a dict (its .get raises AttributeError)
NotADict == [py_type |-> "str"]
IsDict(x) == "py_type" \notin DOMAIN x

Returned(text) == [raised |-> FALSE, text |-> text]
Raised == [raised |-> TRUE, text |-> <<>>]

\* a slip of _extract_response_text: an unknown family raises
extract_rejects_unknown(bedrock_response, model_id) ==
    LET family == response_family(model_id)
    IN  IF family = FAMILY_A
        THEN LET content == Get(bedrock_response, "content", <<>>)
             IN  IF content # <<>> /\ Len(content) > 0
                 THEN IF IsDict(content[1])
                      THEN Returned(Get(content[1], "text", <<>>))
                      ELSE Raised
                 ELSE Returned(<<>>)
        ELSE IF family = FAMILY_B
        THEN Returned(Get(bedrock_response, "completion", <<>>))
        ELSE IF family = FAMILY_C
        THEN LET results == Get(bedrock_response, "results", <<>>)
             IN  IF results # <<>>
                 THEN IF IsDict(results[1])
                      THEN Returned(Get(results[1], "outputText", <<>>))
                      ELSE Raised
                 ELSE Returned(<<>>)
        ELSE Raised

\* a slip of _extract_response_text: the generic rule looks at completion first
extract_prefers_completion(bedrock_response, model_id) ==
    LET family == response_family(model_id)
    IN  IF family = FAMILY_A
        THEN LET content == Get(bedrock_response, "content", <<>>)
             IN  IF content # <<>> /\ Len(content) > 0
                 THEN IF IsDict(content[1])
                      THEN Returned(Get(content[1], "text", <<>>))
                      ELSE Raised
                 ELSE Returned(<<>>)
        ELSE IF family = FAMILY_B
        THEN Returned(Get(bedrock_response, "completion", <<>>))
        ELSE IF family = FAMILY_C
        THEN LET results == Get(bedrock_response, "results", <<>>)
             IN  IF results # <<>>
                 THEN IF IsDict(results[1])
                      THEN Returned(Get(results[1], "outputText", <<>>))
                      ELSE Raised
                 ELSE Returned(<<>>)
        ELSE Returned(Get(bedrock_response, "completion",
                          Get(bedrock_response, "generated_text", <<>>)))

\* _extract_response_text
extract_response_text(bedrock_response, model_id) ==
    LET family == response_family(model_id)
    IN  IF family = FAMILY_A
        THEN LET content == Get(bedrock_response, "content", <<>>)
             IN  IF content # <<>> /\ Len(content) > 0
                 THEN IF IsDict(content[1])
                      THEN Returned(Get(content[1], "text", <<>>))
                      ELSE Raised
                 ELSE Returned(<<>>)
        ELSE IF family = FAMILY_B
        THEN Returned(Get(bedrock_response, "completion", <<>>))
        ELSE IF family = FAMILY_C
        THEN LET results == Get(bedrock_response, "results", <<>>)
             IN  IF results # <<>>
                 THEN IF IsDict(results[1])
                      THEN Returned(Get(results[1], "outputText", <<>>))
                      ELSE Raised
                 ELSE Returned(<<>>)
        ELSE Returned(Get(bedrock_response, "generated_text",
                          Get(bedrock_response, "completion", <<>>)))

\* format_mcp_response: the text and the conversation metadata of the MCP response
format_mcp_response(bedrock_response, model_id, history) ==
    LET generated == extract_response_text(bedrock_response, model_id)
    IN  [raised              |-> generated.raised,
         text                |-> generated.text,
         model               |-> model_id,
         usage               |-> Get(bedrock_response, "usage", <<>>),
         conversation_length |-> Len(history),
         has_context         |-> Len(history) > 0]

----------------------------------------------------------------------------
(* GlueCatalogMCP: the catalog operations bound to every agent *)

\* what the AWS Glue client does during one catalog operation
AWS_OK == "ok"                          \* the client answers
AWS_NO_CLIENT == "no_client"            \* get_glue_client returns None
AWS_CLIENT_ERROR == "client_error"      \* ClientError with an Error.Code / Error.Message
AWS_BARE_CLIENT_ERROR == "bare_client_error"  \* ClientError whose response has no Error entry
AwsAnswers == {AWS_OK, AWS_NO_CLIENT, AWS_CLIENT_ERROR, AWS_BARE_CLIENT_ERROR}

\* json.dumps({"error": ..., "status": "failed"})
ErrorBlock(message) ==
    <<"{", "\"", "e", "r", "r", "o", "r", "\"", ":", " ", "\"">> \o message \o <<"\"", ",", " ", "\"", "s", "t", "a", "t", "u", "s", "\"", ":", " ", "\"", "f", "a", "i", "l", "e", "d", "\"", "}">>

NoClientBlock == ErrorBlock(<<"N", "o", " ", "s", "e", " ", "p", "u", "d", "o", " ", "c", "r", "e", "a", "r", " ", "e", "l", " ", "c", "l", "i", "e", "n", "t", "e", " ", "d", "e", " ", "A", "W", "S", " ", "G", "l", "u", "e", ".">>)
ClientErrorBlock == ErrorBlock(<<"E", "r", "r", "o", "r", " ", "d", "e", " ", "A", "W", "S", " ", "G", "l", "u", "e">>)
UnexpectedBlock == ErrorBlock(<<"E", "r", "r", "o", "r", " ", "i", "n", "e", "s", "p", "e", "r", "a", "d", "o">>)

\* GlueCatalogMCP.list_databases: the ClientError handler indexes
\* e.response['Error'], which raises KeyError out of the handler when it is absent
list_databases(answer) ==
    IF answer = AWS_NO_CLIENT THEN Returned(NoClientBlock)
    ELSE IF answer = AWS_CLIENT_ERROR THEN Returned(ClientErrorBlock)
    ELSE IF answer = AWS_BARE_CLIENT_ERROR THEN Raised
    ELSE Returned(<<"{", "\"", "s", "t", "a", "t", "u", "s", "\"", ":", " ", "\"", "s", "u", "c", "c", "e", "s", "s", "\"", ",", " ", "\"", "t", "o", "t", "a", "l", "_", "d", "a", "t", "a", "b", "a", "s", "e", "s", "\"", ":", " ", "1", "}">>)

\* GlueCatalogMCP.list_tables
list_tables(database_name, answer) ==
    IF answer = AWS_NO_CLIENT THEN Returned(NoClientBlock)
    ELSE IF answer = AWS_CLIENT_ERROR THEN Returned(ClientErrorBlock)
    ELSE IF answer = AWS_BARE_CLIENT_ERROR THEN Raised
    ELSE Returned(<<"{", "\"", "s", "t", "a", "t", "u", "s", "\"", ":", " ", "\"", "s", "u", "c", "c", "e", "s", "s", "\"", ",", " ", "\"", "d", "a", "t", "a", "b", "a", "s", "e", "_", "n", "a", "m", "e", "\"", ":", " ", "\"">> \o database_name
                  \o <<"\"", ",", " ", "\"", "t", "o", "t", "a", "l", "_", "t", "a", "b", "l", "e", "s", "\"", ":", " ", "1", "}">>)

\* GlueCatalogMCP.search_tables: a single except Exception, nothing escapes
search_tables(search_term, answer) ==
    IF answer = AWS_NO_CLIENT THEN Returned(NoClientBlock)
    ELSE IF answer \in {AWS_CLIENT_ERROR, AWS_BARE_CLIENT_ERROR} THEN Returned(UnexpectedBlock)
    ELSE Returned(<<"{", "\"", "s", "t", "a", "t", "u", "s", "\"", ":", " ", "\"", "s", "u", "c", "c", "e", "s", "s", "\"", ",", " ", "\"", "s", "e", "a", "r", "c", "h", "_", "t", "e", "r", "m", "\"", ":", " ", "\"">> \o search_term
                  \o <<"\"", ",", " ", "\"", "t", "o", "t", "a", "l", "_", "f", "o", "u", "n", "d", "\"", ":", " ", "0", "}">>)

\* GlueCatalogMCP.get_catalog_statistics: a single except Exception, nothing escapes
get_catalog_statistics(answer) ==
    IF answer = AWS_NO_CLIENT THEN Returned(NoClientBlock)
    ELSE IF answer \in {AWS_CLIENT_ERROR, AWS_BARE_CLIENT_ERROR} THEN Returned(UnexpectedBlock)
    ELSE Returned(<<"{", "\"", "s", "t", "a", "t", "u", "s", "\"", ":", " ", "\"", "s", "u", "c", "c", "e", "s", "s", "\"", ",", " ", "\"", "c", "a", "t", "a", "l", "o", "g", "_", "s", "t", "a", "t", "s", "\"", ":", " ", "1", "}">>)

----------------------------------------------------------------------------
(* app.py: the keyword classifier and catalog context fetch *)

GLUE_KEYWORDS == {<<"g", "l", "u", "e">>, <<"d", "a", "t", "a", "b", "a", "s", "e">>, <<"t", "a", "b", "l", "e">>, <<"c", "a", "t", "a", "l", "o", "g">>, <<"s", "c", "h", "e", "m", "a">>, <<"d", "a", "t", "o", "s">>,
                  <<"m", "e", "t", "a", "d", "a", "t", "o", "s">>, <<"c", "o", "l", "u", "m", "n", "a">>, <<"b", "d">>, <<"b", "a", "s", "e", " ", "d", "e", " ", "d", "a", "t", "o", "s">>}

LIST_DATABASES_WORDS == {<<"l", "i", "s", "t", "a", "r">>, <<"l", "i", "s", "t">>, <<"m", "o", "s", "t", "r", "a", "r">>, <<"t", "o", "d", "a", "s", " ", "l", "a", "s">>,
                         <<"b", "a", "s", "e", "s", " ", "d", "e", " ", "d", "a", "t", "o", "s">>, <<"d", "a", "t", "a", "b", "a", "s", "e", "s">>}
LIST_TABLES_WORDS == {<<"t", "a", "b", "l", "a">>, <<"t", "a", "b", "l", "e">>, <<"t", "a", "b", "l", "a", "s">>, <<"t", "a", "b", "l", "e", "s">>}
STATS_WORDS == {<<"e", "s", "t", "a", "d", "i^", "s", "t", "i", "c", "a", "s">>, <<"s", "t", "a", "t", "s">>, <<"r", "e", "s", "u", "m", "e", "n">>, <<"o", "v", "e", "r", "v", "i", "e", "w">>,
                <<"c", "u", "a^", "n", "t", "a", "s">>, <<"c", "u", "a", "n", "t", "a", "s">>}
SEARCH_WORDS == {<<"b", "u", "s", "c", "a", "r">>, <<"s", "e", "a", "r", "c", "h">>, <<"e", "n", "c", "u", "e", "n", "t", "r", "a">>, <<"f", "i", "n", "d">>}

DATABASE_MARKERS == {<<"d", "a", "t", "a", "b", "a", "s", "e">>, <<"b", "d">>, <<"b", "a", "s", "e">>}
NOISE_WORDS == {<<"t", "a", "b", "l", "a">>, <<"t", "a", "b", "l", "e">>, <<"d", "a", "t", "o", "s">>, <<"d", "a", "t", "a">>}

OP_NONE == "none"
OP_LIST_DATABASES == "list_databases"
OP_LIST_TABLES == "list_tables"
OP_STATS == "get_catalog_statistics"
OP_SEARCH_TABLES == "search_tables"

\* is_glue_query of chat
is_glue_query(user_message) == AnyIn(GLUE_KEYWORDS, Lower(user_message))

\* the answer of the AWS client to the n-th catalog call of a turn
AnswerAt(aws, n) == aws[IF n > Len(aws) THEN Len(aws) ELSE n]

CatalogCall(op, arg, answer) == [op |-> op, arg |-> arg, answer |-> answer]

Fetched(branch, ctx, calls, raised) ==
    [branch |-> branch, glue_context |-> ctx, calls |-> calls, raised |-> raised]

\* the first i with words[i] a database marker and a word after it (0: none)
MarkerIndex(words) ==
    IF \E i \in 1..Len(words) : words[i] \in DATABASE_MARKERS /\ i + 1 <= Len(words)
    THEN CHOOSE i \in 1..Len(words) :
            /\ words[i] \in DATABASE_MARKERS /\ i + 1 <= Len(words)
            /\ \A j \in 1..(i - 1) : ~(words[j] \in DATABASE_MARKERS /\ j + 1 <= Len(words))
    ELSE 0

\* a slip of the loop: the noise words are not skipped
RECURSIVE SearchMentionedTable_NoNoise(_, _, _, _)
SearchMentionedTable_NoNoise(words, i, aws, calls) ==
    IF i > Len(words)
    THEN Fetched(OP_LIST_TABLES, <<>>, calls, FALSE)
    ELSE IF Len(words[i]) > 3
    THEN LET answer == AnswerAt(aws, Len(calls) + 1)
             result == search_tables(words[i], answer)
             called == Append(calls, CatalogCall(OP_SEARCH_TABLES, words[i], answer))
         IN  IF result.raised
             THEN Fetched(OP_LIST_TABLES, <<>>, called, TRUE)
             ELSE IF result.text # <<>> /\ Contains(<<"\"", "t", "o", "t", "a", "l", "_", "f", "o", "u", "n", "d", "\"">>, result.text)
             THEN Fetched(OP_LIST_TABLES, result.text, called, FALSE)
             ELSE SearchMentionedTable_NoNoise(words, i + 1, aws, called)
    ELSE SearchMentionedTable_NoNoise(words, i + 1, aws, calls)

\* the loop over words of the LIST_TABLES branch without a database name
RECURSIVE SearchMentionedTable(_, _, _, _)
SearchMentionedTable(words, i, aws, calls) ==
    IF i > Len(words)
    THEN Fetched(OP_LIST_TABLES, <<>>, calls, FALSE)
    ELSE IF Len(words[i]) > 3 /\ words[i] \notin NOISE_WORDS
    THEN LET answer == AnswerAt(aws, Len(calls) + 1)
             result == search_tables(words[i], answer)
             called == Append(calls, CatalogCall(OP_SEARCH_TABLES, words[i], answer))
         IN  IF result.raised
             THEN Fetched(OP_LIST_TABLES, <<>>, called, TRUE)
             ELSE IF result.text # <<>> /\ Contains(<<"\"", "t", "o", "t", "a", "l", "_", "f", "o", "u", "n", "d", "\"">>, result.text)
             THEN Fetched(OP_LIST_TABLES, result.text, called, FALSE)
             ELSE SearchMentionedTable(words, i + 1, aws, called)
    ELSE SearchMentionedTable(words, i + 1, aws, calls)

\* search_terms of the SEARCH_TABLES branch
RECURSIVE SearchTerms(_, _)
SearchTerms(words, i) ==
    IF i > Len(words)
    THEN <<>>
    ELSE IF words[i] \in SEARCH_WORDS /\ i + 1 <= Len(words)
    THEN SubSeq(words, i + 1, IF i + 2 <= Len(words) THEN i + 2 ELSE Len(words))
         \o SearchTerms(words, i + 1)
    ELSE IF StartsWith(words[i], <<"\"">>) /\ EndsWith(words[i], <<"\"">>)
    THEN <<StripChars(words[i], {"\""})>> \o SearchTerms(words, i + 1)
    ELSE SearchTerms(words, i + 1)

\* one catalog call whose result becomes the context; an exception is caught by
\* the handler of get_glue_context_for_query, which returns ""
FetchOne(branch, op, arg, answer, result) ==
    IF result.raised
    THEN Fetched(branch, <<>>, <<CatalogCall(op, arg, answer)>>, TRUE)
    ELSE Fetched(branch, result.text, <<CatalogCall(op, arg, answer)>>, FALSE)

\* a slip of the chain: the statistics keywords are tested before the table keywords
get_glue_context_for_query_stats_first(user_message, aws) ==
    LET message_lower == Lower(user_message)
        words == Split(message_lower)
        first == AnswerAt(aws, 1)
    IN  IF AnyIn(LIST_DATABASES_WORDS, message_lower)
        THEN FetchOne(OP_LIST_DATABASES, OP_LIST_DATABASES, <<>>, first, list_databases(first))
        ELSE IF AnyIn(STATS_WORDS, message_lower)
        THEN FetchOne(OP_STATS, OP_STATS, <<>>, first, get_catalog_statistics(first))
        ELSE IF AnyIn(LIST_TABLES_WORDS, message_lower)
        THEN LET m == MarkerIndex(words)
                 db_name == IF m = 0 THEN <<>> ELSE StripChars(words[m + 1], {"\"", ",", "."})
             IN  IF db_name # <<>>
                 THEN FetchOne(OP_LIST_TABLES, OP_LIST_TABLES, db_name, first,
                               list_tables(db_name, first))
                 ELSE SearchMentionedTable(words, 1, aws, <<>>)
        ELSE IF AnyIn(SEARCH_WORDS, message_lower)
        THEN LET search_terms == SearchTerms(words, 1)
             IN  IF search_terms # <<>>
                 THEN FetchOne(OP_SEARCH_TABLES, OP_SEARCH_TABLES, search_terms[1], first,
                               search_tables(search_terms[1], first))
                 ELSE Fetched(OP_SEARCH_TABLES, <<>>, <<>>, FALSE)
        ELSE Fetched(OP_NONE, <<>>, <<>>, FALSE)

\* get_glue_context_for_query
get_glue_context_for_query(user_message, aws) ==
    LET message_lower == Lower(user_message)
        words == Split(message_lower)
        first == AnswerAt(aws, 1)
    IN  IF AnyIn(LIST_DATABASES_WORDS, message_lower)
        THEN FetchOne(OP_LIST_DATABASES, OP_LIST_DATABASES, <<>>, first, list_databases(first))
        ELSE IF AnyIn(LIST_TABLES_WORDS, message_lower)
        THEN LET m == MarkerIndex(words)
                 db_name == IF m = 0 THEN <<>> ELSE StripChars(words[m + 1], {"\"", ",", "."})
             IN  IF db_name # <<>>
                 THEN FetchOne(OP_LIST_TABLES, OP_LIST_TABLES, db_name, first,
                               list_tables(db_name, first))
                 ELSE SearchMentionedTable(words, 1, aws, <<>>)
        ELSE IF AnyIn(STATS_WORDS, message_lower)
        THEN FetchOne(OP_STATS, OP_STATS, <<>>, first, get_catalog_statistics(first))
        ELSE IF AnyIn(SEARCH_WORDS, message_lower)
        THEN LET search_terms == SearchTerms(words, 1)
             IN  IF search_terms # <<>>
                 THEN FetchOne(OP_SEARCH_TABLES, OP_SEARCH_TABLES, search_terms[1], first,
                               search_tables(search_terms[1], first))
                 ELSE Fetched(OP_SEARCH_TABLES, <<>>, <<>>, FALSE)
        ELSE Fetched(OP_NONE, <<>>, <<>>, FALSE)

----------------------------------------------------------------------------
(* app.py: request values *)

Threads == {"t1", "t2"}
Sessions == {"s1", "s2"}

\* a JSON value of the request body: its Python type and, for numbers, its value
\* in tenths (0.7 is 7 tenths, 1000 is 10000 tenths)
Num(type, tenths) == [type |-> type, tenths |-> tenths]

DEFAULT_TEMPERATURE == Num("float", 7)
DEFAULT_MAX_TOKENS == Num("int", 10000)

\* isinstance(x, (int, float)): bool is a subclass of int
IsIntOrFloat(x) == x.type \in {"int", "float", "bool"}
\* isinstance(x, int)
IsInt(x) == x.type \in {"int", "bool"}

\* a slip of the temperature check: out of range values saturate at the bounds
clamp_temperature_saturating(temperature) ==
    IF ~IsIntOrFloat(temperature) THEN DEFAULT_TEMPERATURE
    ELSE IF temperature.tenths < 0 THEN Num("int", 0)
    ELSE IF temperature.tenths > 10 THEN Num("int", 10)
    ELSE temperature

\* chat: temperature outside [0, 1] or not a number becomes 0.7
clamp_temperature(temperature) ==
    IF ~IsIntOrFloat(temperature) \/ ~(0 <= temperature.tenths /\ temperature.tenths <= 10)
    THEN DEFAULT_TEMPERATURE
    ELSE temperature

\* chat: max_tokens outside [1, 4000] or not an int becomes 1000
clamp_max_tokens(max_tokens) ==
    IF ~IsInt(max_tokens) \/ ~(10 <= max_tokens.tenths /\ max_tokens.tenths <= 40000)
    THEN DEFAULT_MAX_TOKENS
    ELSE max_tokens

\* the JSON responses of the handlers
ErrorResponse(status, error) ==
    [success |-> FALSE, status |-> status, error |-> error]

ERR_NO_AGENT == "Agente Bedrock no inicializado"
ERR_NO_JSON == "No se recibieron datos JSON"
ERR_NO_MESSAGE == "El mensaje es requerido"
ERR_PROCESSING == "Error procesando solicitud"
ERR_AGENT_UNAVAILABLE == "Agente no disponible"

\* the locals of a request; a field keeps its initial value until the handler sets it
Idle ==
    [pc |-> "idle", op |-> "none", prev_op |-> "none", session_id |-> "none", agent |-> 0, created |-> FALSE,
     registry_at_check |-> [s \in Sessions |-> 0], constructed |-> 0, construct_failed |-> FALSE,
     step |-> "load", list_ref |-> 0, sliced |-> <<>>,
     user_message |-> <<>>, in_temperature |-> DEFAULT_TEMPERATURE,
     in_max_tokens |-> DEFAULT_MAX_TOKENS,
     temperature |-> DEFAULT_TEMPERATURE, max_tokens |-> DEFAULT_MAX_TOKENS,
     model_id |-> <<>>, classified |-> FALSE,
     fetch |-> Fetched(OP_NONE, <<>>, <<>>, FALSE),
     history_before |-> <<>>, full_prompt |-> <<>>, body |-> [prompt |-> <<>>],
     invocations |-> 0, model_raised |-> FALSE, failed_at |-> "none",
     bedrock_response |-> [stop_reason |-> "none"], assistant_response |-> <<>>,
     response |-> ErrorResponse(0, "none")]

History(a) == agents[a].conversation_history

\* a slip of get_session_agent: the agent is constructed before the membership
\* test, so a failing constructor gives None also for a registered session
get_session_agent_constructs_first(session_id, construct_ok) ==
    IF ~construct_ok
    THEN [agent |-> 0, created |-> FALSE, failed |-> TRUE, agents |-> agents,
          session_agents |-> session_agents]
    ELSE IF session_agents[session_id] = 0
    THEN [agent          |-> Len(agents) + 1,
          created        |-> TRUE,
          failed         |-> FALSE,
          agents         |-> Append(agents, NewAgent),
          session_agents |-> [session_agents EXCEPT ![session_id] = Len(agents) + 1]]
    ELSE [agent |-> session_agents[session_id], created |-> FALSE, failed |-> FALSE,
          agents |-> agents, session_agents |-> session_agents]

\* get_session_agent: the agent of the session, created and registered on first
\* sight; None (0) when the constructor or the Glue integration raises
get_session_agent(session_id, construct_ok) ==
    IF session_agents[session_id] = 0
    THEN IF construct_ok
         THEN [agent          |-> Len(agents) + 1,
               created        |-> TRUE,
               failed         |-> FALSE,
               agents         |-> Append(agents, NewAgent),
               session_agents |-> [session_agents EXCEPT ![session_id] = Len(agents) + 1]]
         ELSE [agent |-> 0, created |-> FALSE, failed |-> TRUE, agents |-> agents,
               session_agents |-> session_agents]
    ELSE [agent |-> session_agents[session_id], created |-> FALSE, failed |-> FALSE,
          agents |-> agents, session_agents |-> session_agents]

CanStart(t) == th[t].pc \in {"idle", "done"}

Finish(t, locals, response) ==
    th' = [th EXCEPT ![t] = [locals EXCEPT !.pc = "done", !.response = response]]

----------------------------------------------------------------------------
(* app.py: POST /api/chat *)

\* chat, up to the clamps: resolve the agent, validate the JSON body and the prompt
ChatBegin(t, session_id, data, construct_ok) ==
    /\ CanStart(t)
    /\ LET got == get_session_agent(session_id, construct_ok)
           prompt == Get(data, "prompt", <<>>)
           user_message == Strip(prompt)
           temperature == Get(data, "temperature", DEFAULT_TEMPERATURE)
           max_tokens == Get(data, "max_tokens", DEFAULT_MAX_TOKENS)
           locals == [Idle EXCEPT !.op = "chat", !.prev_op = th[t].op,
                                  !.session_id = session_id,
                                  !.agent = got.agent, !.created = got.created,
                                  !.construct_failed = got.failed,
                                  !.registry_at_check = session_agents,
                                  !.history_before =
                                      IF got.agent = 0 THEN <<>>
                                      ELSE got.agents[got.agent].conversation_history]
       IN  /\ agents' = got.agents
           /\ session_agents' = got.session_agents
           /\ appended' = IF got.created THEN Append(appended, <<>>) ELSE appended
           /\ IF got.agent = 0
              THEN Finish(t, locals, ErrorResponse(500, ERR_NO_AGENT))
              ELSE IF DOMAIN data = {}
              THEN Finish(t, locals, ErrorResponse(400, ERR_NO_JSON))
              ELSE IF user_message = <<>>
              THEN Finish(t, locals, ErrorResponse(400, ERR_NO_MESSAGE))
              ELSE th' = [th EXCEPT ![t] =
                            [locals EXCEPT !.pc = "classify",
                                           !.user_message = user_message,
                                           !.in_temperature = temperature,
                                           !.in_max_tokens = max_tokens,
                                           !.temperature = clamp_temperature(temperature),
                                           !.max_tokens = clamp_max_tokens(max_tokens),
                                           !.model_id = FIXED_MODEL_ID]]
    /\ nreq' = nreq + 1
    /\ UNCHANGED <<glue_mcp, clock>>

\* a slip of get_glue_context_for_query: no handler, the exception reaches chat
ChatClassify_Propagates(t, aws) ==
    /\ th[t].pc = "classify"
    /\ LET fetch == get_glue_context_for_query(th[t].user_message, aws)
       IN  IF is_glue_query(th[t].user_message) /\ glue_mcp
           THEN IF fetch.raised
                THEN Finish(t, [th[t] EXCEPT !.classified = TRUE, !.fetch = fetch],
                            ErrorResponse(500, ERR_PROCESSING))
                ELSE th' = [th EXCEPT ![t] = [@ EXCEPT !.pc = "invoke", !.classified = TRUE,
                                                       !.fetch = fetch]]
           ELSE th' = [th EXCEPT ![t] = [@ EXCEPT !.pc = "invoke"]]
    /\ UNCHANGED <<glue_mcp, agents, session_agents, clock, appended, nreq>>

\* a slip of chat: the classifier runs without the broad keyword gate
ChatClassify_Ungated(t, aws) ==
    /\ th[t].pc = "classify"
    /\ th' = [th EXCEPT ![t] =
                IF glue_mcp
                THEN [@ EXCEPT !.pc = "invoke", !.classified = TRUE,
                               !.fetch = get_glue_context_for_query(th[t].user_message, aws)]
                ELSE [@ EXCEPT !.pc = "invoke"]]
    /\ UNCHANGED <<glue_mcp, agents, session_agents, clock, appended, nreq>>

\* a slip of chat: the gate does not test whether glue_mcp was initialised
ChatClassify_NoCatalogCheck(t, aws) ==
    /\ th[t].pc = "classify"
    /\ th' = [th EXCEPT ![t] =
                IF is_glue_query(th[t].user_message)
                THEN [@ EXCEPT !.pc = "invoke", !.classified = TRUE,
                               !.fetch = get_glue_context_for_query(th[t].user_message, aws)]
                ELSE [@ EXCEPT !.pc = "invoke"]]
    /\ UNCHANGED <<glue_mcp, agents, session_agents, clock, appended, nreq>>

\* chat: the broad keyword gate and, behind it, the classifier and catalog fetch
ChatClassify(t, aws) ==
    /\ th[t].pc = "classify"
    /\ th' = [th EXCEPT ![t] =
                IF is_glue_query(th[t].user_message) /\ glue_mcp
                THEN [@ EXCEPT !.pc = "invoke", !.classified = TRUE,
                               !.fetch = get_glue_context_for_query(th[t].user_message, aws)]
                ELSE [@ EXCEPT !.pc = "invoke"]]
    /\ UNCHANGED <<glue_mcp, agents, session_agents, clock, appended, nreq>>

----------------------------------------------------------------------------
(* BedrockMCPAgent.invoke_conversational_model, step by step *)

\* a slip of the exception handler: the exception is logged and not re-raised
Failed_Swallowed(t, locals) ==
    th' = [th EXCEPT ![t] = [locals EXCEPT !.pc = "add_user", !.model_raised = TRUE]]

\* a slip of the exception handler: a failed call is tried a second time
Failed_RetriesOnce(t, locals) ==
    IF locals.invocations < 2
    THEN th' = [th EXCEPT ![t] = [locals EXCEPT !.pc = "invoke", !.failed_at = "none"]]
    ELSE Finish(t, [locals EXCEPT !.model_raised = TRUE],
                IF locals.op = "chat" THEN ErrorResponse(500, ERR_PROCESSING)
                ELSE ErrorResponse(0, "raised"))

\* an exception of invoke_conversational_model is logged and re-raised; chat
\* answers it with a 500, a direct caller sees it
Failed(t, locals) ==
    Finish(t, [locals EXCEPT !.model_raised = TRUE],
           IF locals.op = "chat" THEN ErrorResponse(500, ERR_PROCESSING)
           ELSE ErrorResponse(0, "raised"))

\* a slip of invoke_conversational_model: the user message is appended to the
\* history before the model is called
InvokeModel_AppendsFirst(t, answer) ==
    /\ th[t].pc = "invoke"
    /\ LET me == th[t]
           full_prompt == compose_prompt(me.fetch.glue_context,
                                         get_conversation_context(History(me.agent)),
                                         me.user_message)
           body == build_request_body(me.model_id, full_prompt, me.max_tokens, me.temperature)
           called == [me EXCEPT !.full_prompt = full_prompt, !.body = body,
                                !.invocations = @ + 1]
           extracted == extract_response_text(answer.body, me.model_id)
       IN  /\ agents' = [agents EXCEPT ![me.agent].conversation_history =
                            add_message_to_history(@, ROLE_USER, me.user_message, clock)]
           /\ appended' = [appended EXCEPT ![me.agent] =
                              Append(@, Message(ROLE_USER, me.user_message, clock))]
           /\ clock' = clock + 1
           /\ IF answer.kind # "ok"
              THEN Failed(t, [called EXCEPT !.failed_at = "invoke_model"])
              ELSE IF extracted.raised
              THEN Failed(t, [called EXCEPT !.failed_at = "extract"])
              ELSE th' = [th EXCEPT ![t] =
                            [called EXCEPT !.pc = "add_assistant",
                                           !.bedrock_response = answer.body,
                                           !.assistant_response = extracted.text]]
    /\ UNCHANGED <<glue_mcp, session_agents, nreq>>

\* compose the prompt from the history, build the request of the family, call
\* bedrock_client.invoke_model once, parse the body and extract the text
InvokeModel(t, answer) ==
    /\ th[t].pc = "invoke"
    /\ LET me == th[t]
           full_prompt == compose_prompt(me.fetch.glue_context,
                                         get_conversation_context(History(me.agent)),
                                         me.user_message)
           body == build_request_body(me.model_id, full_prompt, me.max_tokens, me.temperature)
           called == [me EXCEPT !.full_prompt = full_prompt, !.body = body,
                                !.invocations = @ + 1]
           extracted == extract_response_text(answer.body, me.model_id)
       IN  IF answer.kind # "ok"
           THEN Failed(t, [called EXCEPT !.failed_at = "invoke_model"])
           ELSE IF extracted.raised
           THEN Failed(t, [called EXCEPT !.failed_at = "extract"])
           ELSE th' = [th EXCEPT ![t] =
                         [called EXCEPT !.pc = "add_user",
                                        !.bedrock_response = answer.body,
                                        !.assistant_response = extracted.text]]
    /\ UNCHANGED <<glue_mcp, agents, session_agents, clock, appended, nreq>>

AddMessage(t, role, content, next_pc) ==
    LET a == th[t].agent
    IN  /\ agents' = [agents EXCEPT ![a].conversation_history =
                         add_message_to_history(@, role, content, clock)]
        /\ appended' = [appended EXCEPT ![a] = Append(@, Message(role, content, clock))]
        /\ clock' = clock + 1
        /\ th' = [th EXCEPT ![t].pc = next_pc]
        /\ UNCHANGED <<glue_mcp, session_agents, nreq>>

\* a slip of the first append: the lowercased text of the classifier is stored
AddUser_Lowercased(t) ==
    /\ th[t].pc = "add_user"
    /\ AddMessage(t, ROLE_USER, Lower(th[t].user_message), "add_assistant")

\* self.add_message_to_history("user", user_message)
AddUser(t) ==
    /\ th[t].pc = "add_user"
    /\ AddMessage(t, ROLE_USER, th[t].user_message, "add_assistant")

\* a slip of the second append: the user message is stored once more
AddAssistant_EchoesUser(t) ==
    /\ th[t].pc = "add_assistant"
    /\ AddMessage(t, ROLE_ASSISTANT, th[t].user_message,
                  IF th[t].op = "chat" THEN "respond" ELSE "done")

\* self.add_message_to_history("assistant", assistant_response), then return
AddAssistant(t) ==
    /\ th[t].pc = "add_assistant"
    /\ AddMessage(t, ROLE_ASSISTANT, th[t].assistant_response,
                  IF th[t].op = "chat" THEN "respond" ELSE "done")

\* a slip of the envelope: glue_enhanced reports the keyword gate
chat_envelope_by_gate(me, mcp_response, conversation_summary) ==
    [success             |-> TRUE,
     status              |-> 200,
     response            |-> mcp_response.text,
     model_id            |-> FIXED_MODEL_ID,
     temperature         |-> me.temperature,
     max_tokens          |-> me.max_tokens,
     glue_enhanced       |-> me.classified,
     conversation_length |-> conversation_summary.total_messages,
     has_context         |-> conversation_summary.conversation_active]

\* a slip of the envelope: conversation_length counts the two appends of the turn
\* on top of the length before it, without the capacity of the history
chat_envelope_uncapped(me, mcp_response, conversation_summary) ==
    [success             |-> TRUE,
     status              |-> 200,
     response            |-> mcp_response.text,
     model_id            |-> FIXED_MODEL_ID,
     temperature         |-> me.temperature,
     max_tokens          |-> me.max_tokens,
     glue_enhanced       |-> me.fetch.glue_context # <<>>,
     conversation_length |-> Len(me.history_before) + 2,
     has_context         |-> conversation_summary.conversation_active]

\* the JSON of a successful chat
chat_envelope(me, mcp_response, conversation_summary) ==
    [success             |-> TRUE,
     status              |-> 200,
     response            |-> mcp_response.text,
     model_id            |-> FIXED_MODEL_ID,
     temperature         |-> me.temperature,
     max_tokens          |-> me.max_tokens,
     glue_enhanced       |-> me.fetch.glue_context # <<>>,
     conversation_length |-> conversation_summary.total_messages,
     has_context         |-> conversation_summary.conversation_active]

\* chat, after the model call: format_mcp_response, get_conversation_summary and
\* the response envelope
ChatRespond(t) ==
    /\ th[t].pc = "respond"
    /\ LET me == th[t]
           mcp_response == format_mcp_response(me.bedrock_response, FIXED_MODEL_ID,
                                               History(me.agent))
           conversation_summary == get_conversation_summary(History(me.agent))
       IN  IF mcp_response.raised
           THEN Finish(t, me, ErrorResponse(500, ERR_PROCESSING))
           ELSE Finish(t, me, chat_envelope(me, mcp_response, conversation_summary))
    /\ UNCHANGED <<glue_mcp, agents, session_agents, clock, appended, nreq>>

----------------------------------------------------------------------------
(* app.py: POST /api/conversation/clear and GET /api/conversation/summary *)

\* a slip of the clear route: the histories of all registered agents are emptied
ClearConversation_ClearsAll(t, session_id, construct_ok) ==
    /\ CanStart(t)
    /\ LET got == get_session_agent(session_id, construct_ok)
           locals == [Idle EXCEPT !.op = "clear", !.prev_op = th[t].op,
                                  !.session_id = session_id,
                                  !.agent = got.agent, !.created = got.created,
                                  !.construct_failed = got.failed,
                                  !.registry_at_check = session_agents,
                                  !.history_before =
                                      IF got.agent = 0 THEN <<>>
                                      ELSE got.agents[got.agent].conversation_history]
       IN  /\ session_agents' = got.session_agents
           /\ IF got.agent # 0
              THEN /\ agents' = [a \in 1..Len(got.agents) |->
                                    [got.agents[a] EXCEPT !.conversation_history =
                                        clear_conversation(@)]]
                   /\ appended' = [a \in 1..Len(got.agents) |-> <<>>]
                   /\ Finish(t, locals, [success |-> TRUE, status |-> 200])
              ELSE /\ agents' = got.agents
                   /\ appended' = appended
                   /\ Finish(t, locals, ErrorResponse(500, ERR_AGENT_UNAVAILABLE))
    /\ nreq' = nreq + 1
    /\ UNCHANGED <<glue_mcp, clock>>

\* POST /api/conversation/clear
ClearConversation(t, session_id, construct_ok) ==
    /\ CanStart(t)
    /\ LET got == get_session_agent(session_id, construct_ok)
           locals == [Idle EXCEPT !.op = "clear", !.prev_op = th[t].op,
                                  !.session_id = session_id,
                                  !.agent = got.agent, !.created = got.created,
                                  !.construct_failed = got.failed,
                                  !.registry_at_check = session_agents,
                                  !.history_before =
                                      IF got.agent = 0 THEN <<>>
                                      ELSE got.agents[got.agent].conversation_history]
       IN  /\ session_agents' = got.session_agents
           /\ IF got.agent # 0
              THEN /\ agents' = [got.agents EXCEPT ![got.agent].conversation_history =
                                    clear_conversation(@)]
                   /\ appended' = [(IF got.created THEN Append(appended, <<>>) ELSE appended)
                                      EXCEPT ![got.agent] = <<>>]
                   /\ Finish(t, locals, [success |-> TRUE, status |-> 200])
              ELSE /\ agents' = got.agents
                   /\ appended' = appended
                   /\ Finish(t, locals, ErrorResponse(500, ERR_AGENT_UNAVAILABLE))
    /\ nreq' = nreq + 1
    /\ UNCHANGED <<glue_mcp, clock>>

ConversationSummary(t, session_id, construct_ok) ==
    /\ CanStart(t)
    /\ LET got == get_session_agent(session_id, construct_ok)
           locals == [Idle EXCEPT !.op = "summary", !.prev_op = th[t].op,
                                  !.session_id = session_id,
                                  !.agent = got.agent, !.created = got.created,
                                  !.construct_failed = got.failed,
                                  !.registry_at_check = session_agents,
                                  !.history_before =
                                      IF got.agent = 0 THEN <<>>
                                      ELSE got.agents[got.agent].conversation_history]
       IN  /\ session_agents' = got.session_agents
           /\ agents' = got.agents
           /\ appended' = IF got.created THEN Append(appended, <<>>) ELSE appended
           /\ IF got.agent # 0
              THEN Finish(t, locals,
                          [success |-> TRUE, status |-> 200,
                           summary |-> get_conversation_summary(
                                           got.agents[got.agent].conversation_history)])
              ELSE Finish(t, locals, ErrorResponse(500, ERR_AGENT_UNAVAILABLE))
    /\ nreq' = nreq + 1
    /\ UNCHANGED <<glue_mcp, clock>>

----------------------------------------------------------------------------
(* app.py: the handlers on concurrent worker threads (app.run(threaded=True)).
   get_session_agent is not atomic: the membership test, the construction of
   the agent, the store into session_agents and the final get are separate
   steps, and a thread may be preempted between any two of them.  A single
   dict read or dict store is atomic under the interpreter lock. *)

\* a request reaches its handler, which calls get_session_agent()
StartRequest(t, op, session_id) ==
    /\ CanStart(t)
    /\ th' = [th EXCEPT ![t] = [Idle EXCEPT !.pc = "resolve", !.op = op,
                                             !.prev_op = th[t].op,
                                             !.session_id = session_id]]
    /\ nreq' = nreq + 1
    /\ UNCHANGED <<glue_mcp, agents, session_agents, clock, appended>>

\* if session_id not in session_agents
ResolveCheck(t) ==
    /\ th[t].pc = "resolve"
    /\ th' = [th EXCEPT ![t] =
                [@ EXCEPT !.pc = IF session_agents[th[t].session_id] = 0
                                 THEN "construct" ELSE "lookup",
                          !.registry_at_check = session_agents]]
    /\ UNCHANGED <<glue_mcp, agents, session_agents, clock, appended, nreq>>

\* agent = BedrockMCPAgent(...), integrate_glue_mcp_with_bedrock(agent); an
\* exception of either makes get_session_agent return None
ResolveConstruct(t, construct_ok) ==
    /\ th[t].pc = "construct"
    /\ IF construct_ok
       THEN /\ agents' = Append(agents, NewAgent)
            /\ appended' = Append(appended, <<>>)
            /\ th' = [th EXCEPT ![t] = [@ EXCEPT !.pc = "store",
                                                  !.constructed = Len(agents) + 1]]
       ELSE /\ th' = [th EXCEPT ![t] = [@ EXCEPT !.pc = "resolved", !.agent = 0,
                                                  !.construct_failed = TRUE]]
            /\ UNCHANGED <<agents, appended>>
    /\ UNCHANGED <<glue_mcp, session_agents, clock, nreq>>

\* a slip of the store: the registry is written back from the copy read at the
\* membership test
ResolveStore_FromSnapshot(t) ==
    /\ th[t].pc = "store"
    /\ session_agents' = [th[t].registry_at_check EXCEPT
                             ![th[t].session_id] = th[t].constructed]
    /\ th' = [th EXCEPT ![t] = [@ EXCEPT !.pc = "lookup", !.created = TRUE]]
    /\ UNCHANGED <<glue_mcp, agents, clock, appended, nreq>>

\* session_agents[session_id] = agent
ResolveStore(t) ==
    /\ th[t].pc = "store"
    /\ session_agents' = [session_agents EXCEPT ![th[t].session_id] = th[t].constructed]
    /\ th' = [th EXCEPT ![t] = [@ EXCEPT !.pc = "lookup", !.created = TRUE]]
    /\ UNCHANGED <<glue_mcp, agents, clock, appended, nreq>>

\* return session_agents.get(session_id)
ResolveLookup(t) ==
    /\ th[t].pc = "lookup"
    /\ th' = [th EXCEPT ![t] = [@ EXCEPT !.pc = "resolved",
                                          !.agent = session_agents[th[t].session_id]]]
    /\ UNCHANGED <<glue_mcp, agents, session_agents, clock, appended, nreq>>

\* chat, from the agent check to the clamps
ChatValidate(t, data) ==
    /\ th[t].pc = "resolved" /\ th[t].op = "chat"
    /\ LET me == th[t]
           user_message == Strip(Get(data, "prompt", <<>>))
           temperature == Get(data, "temperature", DEFAULT_TEMPERATURE)
           max_tokens == Get(data, "max_tokens", DEFAULT_MAX_TOKENS)
       IN  IF me.agent = 0
           THEN Finish(t, me, ErrorResponse(500, ERR_NO_AGENT))
           ELSE IF DOMAIN data = {}
           THEN Finish(t, me, ErrorResponse(400, ERR_NO_JSON))
           ELSE IF user_message = <<>>
           THEN Finish(t, me, ErrorResponse(400, ERR_NO_MESSAGE))
           ELSE th' = [th EXCEPT ![t] =
                         [me EXCEPT !.pc = "classify",
                                    !.history_before = History(me.agent),
                                    !.user_message = user_message,
                                    !.in_temperature = temperature,
                                    !.in_max_tokens = max_tokens,
                                    !.temperature = clamp_temperature(temperature),
                                    !.max_tokens = clamp_max_tokens(max_tokens),
                                    !.model_id = FIXED_MODEL_ID]]
    /\ UNCHANGED <<glue_mcp, agents, session_agents, clock, appended, nreq>>

\* clear_conversation (the route), after get_session_agent
ClearResolved(t) ==
    /\ th[t].pc = "resolved" /\ th[t].op = "clear"
    /\ LET a == th[t].agent
       IN  IF a # 0
           THEN /\ agents' = [agents EXCEPT ![a].conversation_history = clear_conversation(@)]
                /\ appended' = [appended EXCEPT ![a] = <<>>]
                /\ Finish(t, [th[t] EXCEPT !.history_before = History(a)],
                          [success |-> TRUE, status |-> 200])
           ELSE /\ Finish(t, th[t], ErrorResponse(500, ERR_AGENT_UNAVAILABLE))
                /\ UNCHANGED <<agents, appended>>
    /\ UNCHANGED <<glue_mcp, session_agents, clock, nreq>>

\* get_conversation_summary (the route), after get_session_agent
SummaryResolved(t) ==
    /\ th[t].pc = "resolved" /\ th[t].op = "summary"
    /\ LET a == th[t].agent
       IN  IF a # 0
           THEN Finish(t, [th[t] EXCEPT !.history_before = History(a)],
                       [success |-> TRUE, status |-> 200,
                        summary |-> get_conversation_summary(History(a))])
           ELSE Finish(t, th[t], ErrorResponse(500, ERR_AGENT_UNAVAILABLE))
    /\ UNCHANGED <<glue_mcp, agents, session_agents, clock, appended, nreq>>

----------------------------------------------------------------------------
(* Inputs *)

P_HOLA == <<"h", "o", "l", "a">>
P_PADDED == <<" ", " ", "H", "o", "l", "a", " ">>
P_BLANK == <<" ", " ", " ">>
P_LIST_DB == <<"l", "i", "s", "t", "a", " ", "l", "a", "s", " ", "b", "a", "s", "e", "s", " ", "d", "e", " ", "d", "a", "t", "o", "s">>
P_TABLES_DB == <<"t", "a", "b", "l", "a", "s", " ", "d", "e", " ", "b", "d", " ", "v", "e", "n", "t", "a", "s">>
P_TABLE_SEARCH == <<"t", "a", "b", "l", "a", " ", "c", "l", "i", "e", "n", "t", "e", "s", " ", "e", "n", " ", "g", "l", "u", "e">>
P_STATS == <<"s", "t", "a", "t", "s", " ", "d", "e", "l", " ", "c", "a", "t", "a", "l", "o", "g">>
P_SEARCH == <<"b", "u", "s", "c", "a", "r", " ", "v", "e", "n", "t", "a", "s", " ", "e", "n", " ", "g", "l", "u", "e">>
P_SEARCH_NO_TERM == <<"g", "l", "u", "e", " ", "b", "u", "s", "c", "a", "r">>
P_BROAD_ONLY == <<"q", "u", "e", " ", "e", "s", " ", "g", "l", "u", "e">>

\* prompts with keywords of several operations
P_LIST_AND_TABLES == <<"l", "i", "s", "t", "a", "r", " ", "t", "a", "b", "l", "a", "s", " ", "d", "e", " ", "g", "l", "u", "e">>
P_TABLE_STATS_SEARCH == <<"b", "u", "s", "c", "a", "r", " ", "t", "a", "b", "l", "a", " ", "s", "t", "a", "t", "s", " ", "g", "l", "u", "e">>
P_STATS_SEARCH == <<"b", "u", "s", "c", "a", "r", " ", "s", "t", "a", "t", "s", " ", "g", "l", "u", "e">>
P_ALL_FOUR == <<"f", "i", "n", "d", " ", "s", "t", "a", "t", "s", " ", "t", "a", "b", "l", "e", "s", " ", "l", "i", "s", "t">>

\* a prompt with keywords of an operation and none of the broad keywords
P_SPECIFIC_ONLY == <<"l", "i", "s", "t", "a", "r", " ", "t", "a", "b", "l", "a", "s">>

\* prompts with quoted words and punctuation
P_SEARCH_QUOTED == <<"b", "u", "s", "c", "a", "r", " ", "v", "e", "n", "t", "a", "s", " ", "\"", "c", "l", "i", "e", "n", "t", "e", "s", "\"", " ", "e", "n", " ", "g", "l", "u", "e">>
P_QUOTED_FIRST == <<"\"", "c", "l", "i", "e", "n", "t", "e", "s", "\"", " ", "b", "u", "s", "c", "a", "r", " ", "v", "e", "n", "t", "a", "s", " ", "g", "l", "u", "e">>
P_TABLES_DB_QUOTED == <<"t", "a", "b", "l", "a", "s", " ", "d", "e", " ", "b", "d", " ", "\"", "V", "e", "n", "t", "a", "s", "\"", ",">>
P_TABLES_MARKER_LAST == <<"t", "a", "b", "l", "a", "s", " ", "c", "l", "i", "e", "n", "t", "e", "s", " ", "b", "d">>

Prompts == {P_HOLA, P_PADDED, P_BLANK, P_LIST_DB, P_TABLES_DB, P_TABLE_SEARCH, P_STATS,
            P_SEARCH, P_SEARCH_NO_TERM, P_BROAD_ONLY,
            P_LIST_AND_TABLES, P_TABLE_STATS_SEARCH, P_STATS_SEARCH, P_ALL_FOUR,
            P_SPECIFIC_ONLY, P_SEARCH_QUOTED, P_QUOTED_FIRST, P_TABLES_DB_QUOTED,
            P_TABLES_MARKER_LAST}

\* request.get_json(): no body ({} and None are both falsy), no prompt, a prompt
NoJson == [x \in {} |-> x]
ChatInputs == {NoJson, [temperature |-> DEFAULT_TEMPERATURE]}
              \cup {[prompt |-> p] : p \in {P_HOLA, P_PADDED, P_BLANK, P_LIST_DB, P_TABLE_SEARCH}}

\* the answers of the AWS Glue client to the successive catalog calls of one turn
AwsScripts == [1..MaxAwsAnswers -> AwsAnswers]

T_R1 == <<"r", "1">>

\* what bedrock_client.invoke_model does: it raises, or it returns a body
ModelRaises == [kind |-> "raise", body |-> [stop_reason |-> "none"]]
ModelReturns(body) == [kind |-> "ok", body |-> body]

\* bodies of the message-list family: a text block, no content, a malformed block
ClaudeAnswers ==
    {ModelRaises,
     ModelReturns([content |-> <<[type |-> "text", text |-> T_R1]>>]),
     ModelReturns([stop_reason |-> "end_turn"]),
     ModelReturns([content |-> <<NotADict>>])}

----------------------------------------------------------------------------
(* Specification: requests served one at a time *)

Init ==
    /\ glue_mcp \in BOOLEAN
    /\ agents = <<>>
    /\ session_agents = [s \in Sessions |-> 0]
    /\ clock = 1
    /\ th = [t \in Threads |-> Idle]
    /\ appended = <<>>
    /\ nreq = 0

Chat ==
    /\ nreq < MaxRequests
    /\ \E s \in Sessions, data \in ChatInputs, construct_ok \in BOOLEAN :
          ChatBegin("t1", s, data, construct_ok)

Classify == \E aws \in AwsScripts : ChatClassify("t1", aws)

Invoke == \E answer \in ClaudeAnswers : InvokeModel("t1", answer)

Clear ==
    /\ nreq < MaxRequests
    /\ \E s \in Sessions, construct_ok \in BOOLEAN : ClearConversation("t1", s, construct_ok)

Summary ==
    /\ nreq < MaxRequests
    /\ \E s \in Sessions, construct_ok \in BOOLEAN : ConversationSummary("t1", s, construct_ok)

Next ==
    \/ Chat
    \/ Classify
    \/ Invoke
    \/ AddUser("t1")
    \/ AddAssistant("t1")
    \/ ChatRespond("t1")
    \/ Clear
    \/ Summary

Spec == Init /\ [][Next]_vars

----------------------------------------------------------------------------
(* Specification: one session driven through many turns, to the capacity of
   the history and beyond *)

InitLong ==
    /\ glue_mcp = TRUE
    /\ agents = <<>>
    /\ session_agents = [s \in Sessions |-> 0]
    /\ clock = 1
    /\ th = [t \in Threads |-> Idle]
    /\ appended = <<>>
    /\ nreq = 0

\* the prompt of the n-th request: two texts in turn, so that successive turns
\* of the history can be told apart
LongPrompt(n) == IF n % 2 = 0 THEN P_HOLA ELSE P_PADDED

LongChat ==
    /\ nreq < MaxLongRequests
    /\ ChatBegin("t1", "s1", [prompt |-> LongPrompt(nreq)], TRUE)

LongInvoke ==
    \E answer \in {ModelRaises, ModelReturns([content |-> <<[type |-> "text", text |-> T_R1]>>])} :
        InvokeModel("t1", answer)

LongClear ==
    /\ nreq < MaxLongRequests
    /\ ClearConversation("t1", "s1", TRUE)

LongSummary ==
    /\ nreq < MaxLongRequests
    /\ ConversationSummary("t1", "s1", TRUE)

NextLong ==
    \/ LongChat
    \/ Classify
    \/ LongInvoke
    \/ AddUser("t1")
    \/ AddAssistant("t1")
    \/ ChatRespond("t1")
    \/ LongClear
    \/ LongSummary

SpecLong == InitLong /\ [][NextLong]_vars

----------------------------------------------------------------------------
(* Specification: chat requests over prompts of every branch of the classifier *)

CatalogChat ==
    /\ nreq < MaxCatalogRequests
    /\ \E p \in Prompts : ChatBegin("t1", "s1", [prompt |-> p], TRUE)

NextCatalog ==
    \/ CatalogChat
    \/ Classify
    \/ Invoke
    \/ AddUser("t1")
    \/ AddAssistant("t1")
    \/ ChatRespond("t1")

SpecCatalog == Init /\ [][NextCatalog]_vars

----------------------------------------------------------------------------
(* Specification: chat requests over the temperature and max_tokens values *)

Temperatures ==
    {Num("int", -10), Num("int", 0), Num("float", 3), Num("float", 7), Num("int", 10),
     Num("float", 11), Num("int", 20), Num("bool", 10), Num("str", 0)}

MaxTokenValues ==
    {Num("int", -10), Num("int", 0), Num("int", 10), Num("int", 5000), Num("int", 10000),
     Num("int", 40000), Num("int", 40010), Num("int", 99990), Num("float", 5000),
     Num("bool", 10), Num("str", 0)}

ClampInputs ==
    {[prompt |-> P_HOLA]}
    \cup {[prompt |-> P_HOLA, temperature |-> x] : x \in Temperatures}
    \cup {[prompt |-> P_HOLA, max_tokens |-> y] : y \in MaxTokenValues}
    \cup {[prompt |-> P_HOLA, temperature |-> x, max_tokens |-> y] :
             x \in Temperatures, y \in MaxTokenValues}

ClampChat ==
    /\ nreq < MaxClampRequests
    /\ \E data \in ClampInputs : ChatBegin("t1", "s1", data, TRUE)

NextClamp ==
    \/ ClampChat
    \/ Classify
    \/ LongInvoke
    \/ AddUser("t1")
    \/ AddAssistant("t1")
    \/ ChatRespond("t1")

SpecClamp == InitLong /\ [][NextClamp]_vars

----------------------------------------------------------------------------
(* Specification: invoke_conversational_model called directly on one agent,
   over model ids of every family *)

ID_CLAUDE3 == <<"a", "n", "t", "h", "r", "o", "p", "i", "c", ".", "c", "l", "a", "u", "d", "e", "-", "3", "-", "h", "a", "i", "k", "u">>
ID_CLAUDE2 == <<"a", "n", "t", "h", "r", "o", "p", "i", "c", ".", "c", "l", "a", "u", "d", "e", "-", "v", "2">>
ID_TITAN == <<"a", "m", "a", "z", "o", "n", ".", "t", "i", "t", "a", "n", "-", "t", "e", "x", "t">>
ID_LLAMA == <<"m", "e", "t", "a", ".", "l", "l", "a", "m", "a", "3", "-", "8", "b">>
ID_EMPTY == <<>>
ID_TITAN_CLAUDE == <<"t", "i", "t", "a", "n", "-", "c", "l", "a", "u", "d", "e">>
ID_TITAN_CLAUDE3 == <<"T", "i", "t", "a", "n", ".", "C", "L", "A", "U", "D", "E", "-", "3">>
ID_CLAUDE_3_APART == <<"c", "l", "a", "u", "d", "e", "-", "v", "2", "-", "3">>
ID_UPPER_TITAN == <<"A", "m", "a", "z", "o", "n", ".", "T", "I", "T", "A", "N">>

ModelIds == {ID_CLAUDE3, ID_CLAUDE2, ID_TITAN, ID_LLAMA, ID_EMPTY, ID_TITAN_CLAUDE,
             ID_TITAN_CLAUDE3, ID_CLAUDE_3_APART, ID_UPPER_TITAN}

T_A == <<"t", "e", "x", "t", " ", "o", "f", " ", "c", "o", "n", "t", "e", "n", "t">>
T_B == <<"c", "o", "m", "p", "l", "e", "t", "i", "o", "n">>
T_C == <<"o", "u", "t", "p", "u", "t", " ", "t", "e", "x", "t">>
T_G == <<"g", "e", "n", "e", "r", "a", "t", "e", "d">>

\* bodies of every family, and one body that carries the fields of all of them
AdapterAnswers ==
    {ModelRaises,
     ModelReturns([content |-> <<[type |-> "text", text |-> T_A]>>]),
     ModelReturns([completion |-> T_B]),
     ModelReturns([results |-> <<[outputText |-> T_C]>>]),
     ModelReturns([generated_text |-> T_G]),
     ModelReturns([stop_reason |-> "end_turn"]),
     ModelReturns([content |-> <<[type |-> "text", text |-> T_A]>>, completion |-> T_B,
                   results |-> <<[outputText |-> T_C]>>, generated_text |-> T_G]),
     ModelReturns([content |-> <<[type |-> "text", text |-> T_A],
                                 [type |-> "text", text |-> T_B]>>]),
     ModelReturns([content |-> <<>>, results |-> <<>>]),
     ModelReturns([results |-> <<[outputText |-> T_C], [outputText |-> T_G]>>]),
     ModelReturns([generated_text |-> T_G, completion |-> T_B]),
     ModelReturns([generated_text |-> <<>>, completion |-> T_B])}

InitAdapter ==
    /\ glue_mcp = FALSE
    /\ agents = <<NewAgent>>
    /\ session_agents = [s \in Sessions |-> 0]
    /\ clock = 1
    /\ th = [t \in Threads |-> Idle]
    /\ appended = << <<>> >>
    /\ nreq = 0

\* agent.invoke_conversational_model(model_id, user_message) with the default
\* glue_context, max_tokens and temperature
CallInvoke(t, a, model_id, user_message) ==
    /\ CanStart(t)
    /\ th' = [th EXCEPT ![t] =
                [Idle EXCEPT !.pc = "invoke", !.op = "invoke", !.prev_op = th[t].op,
                             !.agent = a,
                             !.model_id = model_id, !.user_message = user_message,
                             !.history_before = History(a)]]
    /\ nreq' = nreq + 1
    /\ UNCHANGED <<glue_mcp, agents, session_agents, clock, appended>>

AdapterCall ==
    /\ nreq < MaxAdapterCalls
    /\ \E model_id \in ModelIds : CallInvoke("t1", 1, model_id, P_HOLA)

AdapterInvoke == \E answer \in AdapterAnswers : InvokeModel("t1", answer)

\* the caller passes the returned body and the same model id on to
\* agent.format_mcp_response, as chat does
FormatAfterInvoke(t) ==
    /\ th[t].pc = "done" /\ th[t].op = "invoke" /\ ~th[t].model_raised
    /\ "mcp" \notin DOMAIN th[t].response
    /\ th' = [th EXCEPT ![t].response =
                [mcp |-> format_mcp_response(th[t].bedrock_response, th[t].model_id,
                                             History(th[t].agent))]]
    /\ UNCHANGED <<glue_mcp, agents, session_agents, clock, appended, nreq>>

NextAdapter ==
    \/ AdapterCall
    \/ AdapterInvoke
    \/ FormatAfterInvoke("t1")
    \/ AddUser("t1")
    \/ AddAssistant("t1")

SpecAdapter == InitAdapter /\ [][NextAdapter]_vars

----------------------------------------------------------------------------
(* Specification: chat, clear and summary requests of two sessions served by
   two worker threads at once.  The histories stay below the capacity, so that
   each append is the single list.append of add_message_to_history. *)

RegistryAws == [i \in 1..MaxAwsAnswers |-> AWS_OK]

RegistryStart ==
    /\ nreq < MaxRegistryRequests
    /\ \E t \in Threads, op \in {"chat", "clear", "summary"}, s \in Sessions :
          StartRequest(t, op, s)

RegistryResolve ==
    \E t \in Threads :
        \/ ResolveCheck(t)
        \/ \E construct_ok \in BOOLEAN : ResolveConstruct(t, construct_ok)
        \/ ResolveStore(t)
        \/ ResolveLookup(t)

RegistryChat ==
    \E t \in Threads :
        \/ \E data \in {[prompt |-> P_HOLA], [prompt |-> P_BLANK]} : ChatValidate(t, data)
        \/ ChatClassify(t, RegistryAws)
        \/ InvokeModel(t, ModelReturns([content |-> <<[type |-> "text", text |-> T_R1]>>]))
        \/ AddUser(t)
        \/ AddAssistant(t)
        \/ ChatRespond(t)

RegistryClear == \E t \in Threads : ClearResolved(t)

RegistrySummary == \E t \in Threads : SummaryResolved(t)

NextRegistry ==
    \/ RegistryStart
    \/ RegistryResolve
    \/ RegistryChat
    \/ RegistryClear
    \/ RegistrySummary

SpecRegistry == InitLong /\ [][NextRegistry]_vars

----------------------------------------------------------------------------
(* Specification: the history buffer of one agent called directly: appends of
   short and long contents, and the three read operations *)

TEXT_100 == [i \in 1..100 |-> "x"]
TEXT_101 == [i \in 1..101 |-> IF i <= 100 THEN "x" ELSE "y"]

BufferContents == {P_HOLA, TEXT_100, TEXT_101}

\* the locals of a direct call of a method of agent a
DirectCall(t, a, method) ==
    [Idle EXCEPT !.pc = "done", !.op = method, !.prev_op = th[t].op, !.agent = a,
                 !.history_before = History(a)]

\* agent.add_message_to_history(role, content)
BufferAppend(t, a, role, content) ==
    /\ CanStart(t)
    /\ agents' = [agents EXCEPT ![a].conversation_history =
                     add_message_to_history(@, role, content, clock)]
    /\ appended' = [appended EXCEPT ![a] = Append(@, Message(role, content, clock))]
    /\ clock' = clock + 1
    /\ th' = [th EXCEPT ![t] = DirectCall(t, a, "add_message_to_history")]
    /\ nreq' = nreq + 1
    /\ UNCHANGED <<glue_mcp, session_agents>>

\* a slip of the preview: the contents are cut in the messages of the history
BufferSummary_CutsInPlace(t, a) ==
    /\ CanStart(t)
    /\ agents' = [agents EXCEPT ![a].conversation_history =
                     [i \in 1..Len(@) |->
                         IF i > Len(@) - PreviewWindow
                         THEN [@[i] EXCEPT !.content = Prefix(@, PreviewChars)]
                         ELSE @[i]]]
    /\ th' = [th EXCEPT ![t] =
                [DirectCall(t, a, "get_conversation_summary") EXCEPT
                    !.response = [summary |-> get_conversation_summary(History(a))]]]
    /\ nreq' = nreq + 1
    /\ UNCHANGED <<glue_mcp, session_agents, clock, appended>>

\* agent.get_conversation_summary()
BufferSummary(t, a) ==
    /\ CanStart(t)
    /\ th' = [th EXCEPT ![t] =
                [DirectCall(t, a, "get_conversation_summary") EXCEPT
                    !.response = [summary |-> get_conversation_summary(History(a))]]]
    /\ nreq' = nreq + 1
    /\ UNCHANGED <<glue_mcp, agents, session_agents, clock, appended>>

\* agent.get_conversation_context()
BufferContext(t, a) ==
    /\ CanStart(t)
    /\ th' = [th EXCEPT ![t] =
                [DirectCall(t, a, "get_conversation_context") EXCEPT
                    !.response = [context |-> get_conversation_context(History(a))]]]
    /\ nreq' = nreq + 1
    /\ UNCHANGED <<glue_mcp, agents, session_agents, clock, appended>>

\* agent.format_mcp_response(bedrock_response, model_id)
BufferFormat(t, a, bedrock_response, model_id) ==
    /\ CanStart(t)
    /\ th' = [th EXCEPT ![t] =
                [DirectCall(t, a, "format_mcp_response") EXCEPT
                    !.bedrock_response = bedrock_response,
                    !.model_id = model_id,
                    !.response = [mcp |-> format_mcp_response(bedrock_response, model_id,
                                                              History(a))]]]
    /\ nreq' = nreq + 1
    /\ UNCHANGED <<glue_mcp, agents, session_agents, clock, appended>>

NextBuffer ==
    /\ nreq < MaxBufferCalls
    /\ \/ \E role \in {ROLE_USER, ROLE_ASSISTANT}, content \in BufferContents :
              BufferAppend("t1", 1, role, content)
       \/ BufferSummary("t1", 1)
       \/ BufferContext("t1", 1)
       \/ BufferFormat("t1", 1, [content |-> <<[type |-> "text", text |-> T_R1]>>],
                       FIXED_MODEL_ID)

SpecBuffer == InitAdapter /\ [][NextBuffer]_vars

----------------------------------------------------------------------------
(* Specification: two worker threads serving chat, clear and summary requests
   of one session whose history is full.  add_message_to_history is not
   atomic: the attribute read of self.conversation_history, the list.append,
   the len() test, the [-20:] slice and the store of the slice into the
   attribute are separate steps, and a thread may be preempted between any
   two of them.  The field list_id of the agent tells the list object bound
   to the attribute in this state from the ones bound to it before. *)

\* the history after n turns served one after the other
RECURSIVE HistoryAfterTurns(_)
HistoryAfterTurns(n) ==
    IF n = 0 THEN <<>>
    ELSE add_message_to_history(
             add_message_to_history(HistoryAfterTurns(n - 1), ROLE_USER, P_HOLA, 2 * n - 1),
             ROLE_ASSISTANT, T_R1, 2 * n)

\* the state after ten turns of session s1
InitCapacity ==
    /\ glue_mcp = TRUE
    /\ agents = <<[conversation_history |-> HistoryAfterTurns(10), list_id |-> 1]>>
    /\ session_agents = [s \in Sessions |-> IF s = "s1" THEN 1 ELSE 0]
    /\ clock = 21
    /\ th = [t \in Threads |-> Idle]
    /\ appended = <<HistoryAfterTurns(10)>>
    /\ nreq = 0

\* the role, the content and the continuation of the append a thread is in
AppendRole(t) == IF th[t].pc = "add_user" THEN ROLE_USER ELSE ROLE_ASSISTANT
AppendContent(t) ==
    IF th[t].pc = "add_user" THEN th[t].user_message ELSE th[t].assistant_response
AfterAppend(t) ==
    IF th[t].pc = "add_user" THEN "add_assistant"
    ELSE IF th[t].op = "chat" THEN "respond" ELSE "done"

\* self.conversation_history.append: the attribute is read
AppendLoad(t) ==
    /\ th[t].pc \in {"add_user", "add_assistant"} /\ th[t].step = "load"
    /\ th' = [th EXCEPT ![t].step = "call",
                        ![t].list_ref = agents[th[t].agent].list_id]
    /\ UNCHANGED <<glue_mcp, agents, session_agents, clock, appended, nreq>>

\* the message is built and appended to the list that was read; a list that
\* is no longer bound to the attribute takes the message with it
AppendCall(t) ==
    /\ th[t].pc \in {"add_user", "add_assistant"} /\ th[t].step = "call"
    /\ LET a == th[t].agent
           message == Message(AppendRole(t), AppendContent(t), clock)
       IN  /\ agents' = IF agents[a].list_id = th[t].list_ref
                        THEN [agents EXCEPT ![a].conversation_history = Append(@, message)]
                        ELSE agents
           /\ appended' = [appended EXCEPT ![a] = Append(@, message)]
    /\ clock' = clock + 1
    /\ th' = [th EXCEPT ![t].step = "check"]
    /\ UNCHANGED <<glue_mcp, session_agents, nreq>>

\* if len(self.conversation_history) > 20
TrimCheck(t) ==
    /\ th[t].pc \in {"add_user", "add_assistant"} /\ th[t].step = "check"
    /\ th' = IF Len(History(th[t].agent)) > HistoryLimit
             THEN [th EXCEPT ![t].step = "slice"]
             ELSE [th EXCEPT ![t].step = "load", ![t].pc = AfterAppend(t)]
    /\ UNCHANGED <<glue_mcp, agents, session_agents, clock, appended, nreq>>

\* self.conversation_history[-20:] is evaluated
TrimSlice(t) ==
    /\ th[t].pc \in {"add_user", "add_assistant"} /\ th[t].step = "slice"
    /\ th' = [th EXCEPT ![t].step = "assign",
                        ![t].sliced = LastN(History(th[t].agent), HistoryLimit)]
    /\ UNCHANGED <<glue_mcp, agents, session_agents, clock, appended, nreq>>

\* self.conversation_history = <the slice>
TrimAssign(t) ==
    /\ th[t].pc \in {"add_user", "add_assistant"} /\ th[t].step = "assign"
    /\ agents' = [agents EXCEPT ![th[t].agent].conversation_history = th[t].sliced,
                                ![th[t].agent].list_id = @ + 1]
    /\ th' = [th EXCEPT ![t].step = "load", ![t].pc = AfterAppend(t), ![t].sliced = <<>>]
    /\ UNCHANGED <<glue_mcp, session_agents, clock, appended, nreq>>

\* the clear route for the registered session: self.conversation_history = []
ClearRebind(t, session_id) ==
    /\ CanStart(t) /\ session_agents[session_id] # 0
    /\ LET a == session_agents[session_id]
       IN  /\ agents' = [agents EXCEPT ![a].conversation_history = clear_conversation(@),
                                       ![a].list_id = @ + 1]
           /\ appended' = [appended EXCEPT ![a] = <<>>]
           /\ Finish(t, [Idle EXCEPT !.op = "clear", !.prev_op = th[t].op,
                                     !.session_id = session_id, !.agent = a,
                                     !.registry_at_check = session_agents,
                                     !.history_before = History(a)],
                     [success |-> TRUE, status |-> 200])
    /\ nreq' = nreq + 1
    /\ UNCHANGED <<glue_mcp, session_agents, clock>>

\* each thread sends its own text
CapacityPrompt(t) == IF t = "t1" THEN P_HOLA ELSE P_PADDED

CapacityStart ==
    /\ nreq < MaxCapacityRequests
    /\ \E t \in Threads :
          \/ ChatBegin(t, "s1", [prompt |-> CapacityPrompt(t)], TRUE)
          \/ ClearRebind(t, "s1")
          \/ ConversationSummary(t, "s1", TRUE)

CapacityChat ==
    \E t \in Threads :
        \/ ChatClassify(t, RegistryAws)
        \/ InvokeModel(t, ModelReturns([content |-> <<[type |-> "text", text |-> T_R1]>>]))
        \/ ChatRespond(t)

CapacityAppend ==
    \E t \in Threads :
        \/ AppendLoad(t)
        \/ AppendCall(t)
        \/ TrimCheck(t)
        \/ TrimSlice(t)
        \/ TrimAssign(t)

NextCapacity ==
    \/ CapacityStart
    \/ CapacityChat
    \/ CapacityAppend

SpecCapacity == InitCapacity /\ [][NextCapacity]_vars

----------------------------------------------------------------------------
(* Claims *)

ChatDone(t) == th[t].op = "chat" /\ th[t].pc = "done"
ChatSucceeded(t) == ChatDone(t) /\ th[t].response.success

\* C1: after N appends to one agent with no clear in between, its history has
\* exactly min(N, 20) turns, and they are the last min(N, 20) appended turns in
\* the order of their appends.
C1_BoundedHistory ==
    \A a \in 1..Len(agents) :
        LET h == History(a)
            n == Len(appended[a])
        IN  /\ Len(h) = IF n < 20 THEN n ELSE 20
            /\ \A i \in 1..Len(h) : h[i] = appended[a][n - Len(h) + i]

\* C1 witness: 22 turns were appended to an agent since its last clear
C1_Witness ==
    \E a \in 1..Len(agents) : Len(appended[a]) = 22 /\ Len(History(a)) = 20

\* C2: a turn whose model invocation or text extraction fails is answered with
\* an error, and the history of its session is the sequence of turns it was when
\* the turn started.
C2_FailedTurnKeepsHistory ==
    \A t \in Threads :
        (ChatDone(t) /\ th[t].model_raised) =>
            /\ ~th[t].response.success
            /\ th[t].response.status = 500
            /\ History(th[t].agent) = th[t].history_before

\* C2 witness: a turn on a session with two turns of history failed in the
\* extraction of the response text
C2_Witness ==
    \E t \in Threads :
        /\ ChatDone(t) /\ th[t].model_raised /\ th[t].failed_at = "extract"
        /\ Len(th[t].history_before) = 2

\* C3: a successful turn leaves the history as it was before the turn (less
\* what the capacity evicts) followed by exactly two turns: the user turn with
\* the user text handed to the engine, then the assistant turn with the text
\* extracted from the model response.
C3_SuccessAppendsTwo ==
    \A t \in Threads :
        ChatSucceeded(t) =>
            LET h == History(th[t].agent)
                before == th[t].history_before
                body == th[t].bedrock_response
                text == IF "content" \in DOMAIN body /\ body.content # <<>>
                        THEN body.content[1].text ELSE <<>>
            IN  /\ Len(h) >= 2
                /\ Len(h) = IF Len(before) + 2 < 20 THEN Len(before) + 2 ELSE 20
                /\ \A i \in 1..(Len(h) - 2) : h[i] = before[Len(before) - (Len(h) - 2) + i]
                /\ h[Len(h) - 1].role = "user"
                /\ h[Len(h) - 1].content = th[t].user_message
                /\ h[Len(h)].role = "assistant"
                /\ h[Len(h)].content = text
                /\ h[Len(h) - 1].timestamp < h[Len(h)].timestamp

\* C3 witness: a successful second turn whose prompt was sent with capitals and
\* surrounding blanks
C3_Witness ==
    \E t \in Threads :
        /\ ChatSucceeded(t) /\ Len(th[t].history_before) = 2
        /\ th[t].user_message = <<"H", "o", "l", "a">>
        /\ th[t].assistant_response # <<>>

HasPart(prompt, name) == \E i \in 1..Len(prompt) : prompt[i].part = name

LastCall(fetch) == fetch.calls[Len(fetch.calls)]

\* the catalog operation of the turn ended in an error: its last call raised or
\* returned an error text block
CatalogEndedInError(fetch) ==
    fetch.calls # <<>> /\ LastCall(fetch).answer # AWS_OK

\* C4: when the catalog fetch of a turn raises, the turn still invokes the
\* model, with no catalog block in the prompt, and its outcome is the outcome of
\* the model invocation: a successful envelope unless the model call fails.
C4_CatalogFailureNotSurfaced ==
    \A t \in Threads :
        (th[t].op = "chat" /\ th[t].fetch.raised) =>
            /\ th[t].pc \in {"invoke", "add_user", "add_assistant", "respond", "done"}
            /\ th[t].pc = "done" =>
                  /\ th[t].invocations = 1
                  /\ th[t].response.success <=> ~th[t].model_raised
                  /\ ~HasPart(th[t].full_prompt, "glue_context")

\* C4 witness: a turn whose catalog call raised returned a successful envelope
C4_Witness ==
    \E t \in Threads :
        /\ ChatSucceeded(t) /\ th[t].fetch.raised
        /\ LastCall(th[t].fetch).op = OP_LIST_DATABASES

\* C5 as stated: glue_enhanced is true exactly when a catalog operation was
\* attempted in the turn, whatever its outcome.
C5_EnhancedIffAttempted ==
    \A t \in Threads :
        ChatSucceeded(t) =>
            (th[t].response.glue_enhanced <=> th[t].fetch.calls # <<>>)

\* C5 amended: glue_enhanced is true exactly when the prompt sent to the model
\* carries a catalog block, that is when a catalog operation was called, did not
\* raise and, for the table-name search of a LIST_TABLES turn, returned a result
\* with a "total_found" entry; an error text block of the other operations counts.
C5_EnhancedIffContext ==
    \A t \in Threads :
        ChatSucceeded(t) =>
            LET fetch == th[t].fetch
            IN  /\ th[t].response.glue_enhanced <=> HasPart(th[t].full_prompt, "glue_context")
                /\ th[t].response.glue_enhanced <=>
                      /\ fetch.calls # <<>>
                      /\ ~fetch.raised
                      /\ (fetch.branch = OP_LIST_TABLES /\ LastCall(fetch).op = OP_SEARCH_TABLES)
                            => LastCall(fetch).answer = AWS_OK

\* C5 witness: a catalog operation was attempted and the envelope reports
\* glue_enhanced = false
C5_Witness ==
    \E t \in Threads :
        /\ ChatSucceeded(t) /\ th[t].fetch.calls # <<>>
        /\ ~th[t].response.glue_enhanced

\* C6 as stated: when the catalog operation of a turn ends in an error, the
\* prompt sent to the model carries no catalog heading and no catalog text.
C6_ErrorGivesEmptyContext ==
    \A t \in Threads :
        (th[t].op = "chat" /\ th[t].invocations = 1 /\ CatalogEndedInError(th[t].fetch)) =>
            /\ ~HasPart(th[t].full_prompt, "glue_heading")
            /\ ~HasPart(th[t].full_prompt, "glue_context")

\* the turn passed the validation of the JSON body and of the prompt
Validated(t) == th[t].op = "chat" /\ th[t].user_message # <<>>

MARK_A == <<"c", "l", "a", "u", "d", "e", "-", "3">>
MARK_B == <<"c", "l", "a", "u", "d", "e">>
MARK_C == <<"t", "i", "t", "a", "n">>

\* the priorities (1: A, 2: B, 3: C) of the family markers found in a model id
MarkersIn(model_id) ==
    {r \in 1..3 : Contains(<<MARK_A, MARK_B, MARK_C>>[r], Lower(model_id))}

\* the priority of the family whose request shape a body has (4: generic)
ShapeRank(body) ==
    IF "messages" \in DOMAIN body THEN 1
    ELSE IF "max_tokens_to_sample" \in DOMAIN body THEN 2
    ELSE IF "inputText" \in DOMAIN body THEN 3
    ELSE 4

\* the text the extraction of the family of priority r gives for a response
TextOfRank(r, response) ==
    IF r = 1
    THEN IF "content" \in DOMAIN response /\ response.content # <<>>
         THEN response.content[1].text ELSE <<>>
    ELSE IF r = 2
    THEN IF "completion" \in DOMAIN response THEN response.completion ELSE <<>>
    ELSE IF r = 3
    THEN IF "results" \in DOMAIN response /\ response.results # <<>>
         THEN response.results[1].outputText ELSE <<>>
    ELSE IF "generated_text" \in DOMAIN response THEN response.generated_text
    ELSE IF "completion" \in DOMAIN response THEN response.completion
    ELSE <<>>

Invoked(t) == th[t].op = "invoke" /\ th[t].invocations = 1
Extracted(t) == Invoked(t) /\ ~th[t].model_raised

\* C8: for a model id that carries the markers of two or more families, the
\* request has the shape of the family of highest priority among them
\* (A > B > C) and the response text is extracted by that family's rule.
C8_DispatchPriority ==
    \A t \in Threads :
        (Invoked(t) /\ Cardinality(MarkersIn(th[t].model_id)) >= 2) =>
            LET best == CHOOSE r \in MarkersIn(th[t].model_id) :
                            \A q \in MarkersIn(th[t].model_id) : r <= q
            IN  /\ ShapeRank(th[t].body) = best
                /\ Extracted(t) =>
                      th[t].assistant_response = TextOfRank(best, th[t].bedrock_response)

\* C8 witness: an id with the markers of B and C, answered by a response that
\* carries the text fields of every family, took the text of family B
C8_Witness ==
    \E t \in Threads :
        /\ Extracted(t) /\ th[t].pc = "done"
        /\ MarkersIn(th[t].model_id) = {2, 3}
        /\ DOMAIN th[t].bedrock_response = {"content", "completion", "results", "generated_text"}
        /\ th[t].assistant_response = T_B

\* C9: for a model id without any family marker the request has the generic
\* shape, the text is extracted by the generic rule, and the extraction does
\* not raise.
C9_UnknownIsGeneric ==
    \A t \in Threads :
        (Invoked(t) /\ MarkersIn(th[t].model_id) = {}) =>
            /\ ShapeRank(th[t].body) = 4
            /\ DOMAIN th[t].body = {"prompt", "max_tokens", "temperature"}
            /\ th[t].failed_at # "extract"
            /\ Extracted(t) =>
                  th[t].assistant_response = TextOfRank(4, th[t].bedrock_response)

\* C9 witness: a call with an unknown model id completed with the completion
\* field of the response as its text
C9_Witness ==
    \E t \in Threads :
        /\ Extracted(t) /\ th[t].pc = "done"
        /\ th[t].model_id = ID_LLAMA
        /\ DOMAIN th[t].bedrock_response = {"completion"}
        /\ History(th[t].agent)[Len(History(th[t].agent))].content = T_B

\* C10: a clear leaves the history empty and succeeds, from any history and
\* also right after another clear; the summary of the cleared history reports
\* total_messages = 0, conversation_active = false and no last_message_time.
C10_ClearIdempotent ==
    \A t \in Threads :
        (th[t].op = "clear" /\ th[t].pc = "done") =>
            /\ th[t].response.success
            /\ History(th[t].agent) = <<>>
            /\ get_conversation_summary(History(th[t].agent)).total_messages = 0
            /\ get_conversation_summary(History(th[t].agent)).conversation_active = FALSE
            /\ get_conversation_summary(History(th[t].agent)).last_message_time = NoTime
            /\ get_conversation_summary(History(th[t].agent)).messages_preview = <<>>

\* C10 witness: a clear served right after another clear
C10_Witness ==
    \E t \in Threads :
        /\ th[t].op = "clear" /\ th[t].pc = "done" /\ th[t].prev_op = "clear"
        /\ th[t].history_before = <<>>
        /\ th[t].response.success

\* C11: a successful turn in which no catalog operation was called reports
\* glue_enhanced = false and conversation_length = min(L + 2, 20), L being the
\* length of the history before the turn (2 on an empty session).
C11_PlainTurnEnvelope ==
    \A t \in Threads :
        (ChatSucceeded(t) /\ th[t].fetch.calls = <<>>) =>
            LET L == Len(th[t].history_before)
            IN  /\ th[t].response.glue_enhanced = FALSE
                /\ th[t].response.conversation_length = (IF L + 2 < 20 THEN L + 2 ELSE 20)
                /\ L = 0 => th[t].response.conversation_length = 2

\* C11 witness: a plain turn on a full history answered conversation_length 20
C11_Witness ==
    \E t \in Threads :
        /\ ChatSucceeded(t) /\ th[t].fetch.calls = <<>>
        /\ Len(th[t].history_before) = 20
        /\ th[t].response.conversation_length = 20

\* C12 as stated: a turn makes at most one catalog call: exactly one when the
\* classifier selects an operation, none when it selects none.
C12_ExactlyOneCall ==
    \A t \in Threads :
        (th[t].op = "chat" /\ th[t].classified) =>
            /\ Len(th[t].fetch.calls) <= 1
            /\ th[t].fetch.branch # OP_NONE => Len(th[t].fetch.calls) = 1
            /\ th[t].fetch.branch = OP_NONE => th[t].fetch.calls = <<>>

\* the operations in the order of the classifier's tests, and the priorities
\* (1 highest) of the keyword sets found in a text
OpOfPriority == <<OP_LIST_DATABASES, OP_LIST_TABLES, OP_STATS, OP_SEARCH_TABLES>>
MatchedSets(text) ==
    {r \in 1..4 :
        \E w \in <<LIST_DATABASES_WORDS, LIST_TABLES_WORDS, STATS_WORDS, SEARCH_WORDS>>[r] :
            Contains(w, Lower(text))}

\* C13: the operation the classifier decides for a text is the one of the
\* highest-priority keyword set the text matches, in the order LIST_DATABASES,
\* LIST_TABLES, STATS, SEARCH_TABLES, and none when it matches no set.
C13_FirstMatchWins ==
    \A t \in Threads :
        (th[t].op = "chat" /\ th[t].classified) =>
            LET matched == MatchedSets(th[t].user_message)
            IN  /\ matched = {} => th[t].fetch.branch = OP_NONE
                /\ matched # {} =>
                      /\ th[t].fetch.branch =
                            OpOfPriority[CHOOSE r \in matched : \A q \in matched : r <= q]
                      /\ \A q \in matched : \A r \in 1..(q - 1) :
                            r \notin matched => th[t].fetch.branch # OpOfPriority[r]

\* C13 witness: a text with the keywords of LIST_TABLES, STATS and SEARCH_TABLES
\* was classified LIST_TABLES
C13_Witness ==
    \E t \in Threads :
        /\ ChatDone(t) /\ th[t].classified
        /\ MatchedSets(th[t].user_message) = {2, 3, 4}
        /\ th[t].fetch.branch = OP_LIST_TABLES

\* the place of a part in the composed input: system instruction, catalog block,
\* conversation block, user turn, assistant cue
BlockOf(part) ==
    IF part = "system_prompt" THEN 1
    ELSE IF part \in {"glue_heading", "glue_context"} THEN 2
    ELSE IF part \in {"conversation_heading", "conversation_line"} THEN 3
    ELSE IF part = "user_turn" THEN 4
    ELSE 5

PartsOf(prompt, names) == {i \in 1..Len(prompt) : prompt[i].part \in names}

\* C14: the composed input is the system block, then the catalog block exactly
\* when the catalog context is not empty, then the conversation block exactly
\* when the history is not empty, then the user turn and the assistant cue;
\* every part of the catalog block comes before every part of the conversation
\* block.
C14_PromptOrder ==
    \A t \in Threads :
        (th[t].op = "chat" /\ th[t].invocations = 1) =>
            LET prompt == th[t].full_prompt
                n == Len(prompt)
                glue == PartsOf(prompt, {"glue_heading", "glue_context"})
                conv == PartsOf(prompt, {"conversation_heading", "conversation_line"})
            IN  /\ \A i \in 1..(n - 1) : BlockOf(prompt[i].part) <= BlockOf(prompt[i + 1].part)
                /\ PartsOf(prompt, {"system_prompt"}) = {1}
                /\ PartsOf(prompt, {"user_turn"}) = {n - 1}
                /\ PartsOf(prompt, {"assistant_cue"}) = {n}
                /\ prompt[n - 1].content = th[t].user_message
                /\ glue # {} <=> th[t].fetch.glue_context # <<>>
                /\ glue # {} => /\ glue = {2, 3}
                                /\ prompt[2].part = "glue_heading"
                                /\ prompt[3].text = th[t].fetch.glue_context
                /\ conv # {} <=> th[t].history_before # <<>>
                /\ conv # {} =>
                      /\ prompt[CHOOSE i \in conv : \A j \in conv : i <= j].part
                            = "conversation_heading"
                      /\ Cardinality(conv) = 1 + (IF Len(th[t].history_before) < 10
                                                  THEN Len(th[t].history_before) ELSE 10)
                /\ \A i \in glue : \A j \in conv : i < j

\* C14 witness: a prompt with both the catalog block and the conversation block
C14_Witness ==
    \E t \in Threads :
        /\ th[t].op = "chat" /\ th[t].invocations = 1
        /\ HasPart(th[t].full_prompt, "glue_heading")
        /\ HasPart(th[t].full_prompt, "conversation_heading")

\* the request was rejected by the validation of the JSON body or of the prompt
RejectedByValidation(t) ==
    /\ ChatDone(t) /\ ~th[t].response.success
    /\ th[t].response.error \in {ERR_NO_JSON, ERR_NO_MESSAGE}

\* C15 as stated: a request without user text (no body, no prompt, an empty or
\* blank prompt) is rejected before any catalog or model call, leaves every
\* history as it was and creates or changes no session entry.
C15_RejectedWithoutEffect ==
    \A t \in Threads :
        RejectedByValidation(t) =>
            /\ th[t].response.status = 400
            /\ th[t].fetch.calls = <<>>
            /\ th[t].invocations = 0
            /\ History(th[t].agent) = th[t].history_before
            /\ ~th[t].created

NoEntries == [s \in Sessions |-> 0]

\* the threads t and u resolve two new, distinct session keys at the same time:
\* each made its membership test before the other stored, and each has stored
BothCreated(t, u) ==
    /\ t # u
    /\ th[t].created /\ th[u].created
    /\ th[t].session_id # th[u].session_id
    /\ th[t].registry_at_check = NoEntries /\ th[u].registry_at_check = NoEntries

\* C16: when two threads resolve two new, distinct session keys concurrently,
\* both keys are in the registry, each mapped to the agent its own thread
\* constructed; the two agents are distinct objects, each request works on its
\* own agent, and the history of each holds the turns of its own request only.
C16_DistinctKeysBothRegistered ==
    \A t \in Threads : \A u \in Threads :
        BothCreated(t, u) =>
            /\ th[t].constructed # 0
            /\ session_agents[th[t].session_id] = th[t].constructed
            /\ session_agents[th[u].session_id] = th[u].constructed
            /\ th[t].constructed # th[u].constructed
            /\ th[t].pc # "lookup" => th[t].agent = th[t].constructed
            /\ ChatSucceeded(t) =>
                  /\ Len(History(th[t].agent)) = 2
                  /\ History(th[t].agent)[1].content = th[t].user_message
                  /\ appended[th[t].agent] = History(th[t].agent)

\* C16 witness: two chat turns of two new sessions, both resolved before either
\* was registered, both completed
C16_Witness ==
    \E t \in Threads : \E u \in Threads :
        /\ BothCreated(t, u)
        /\ ChatSucceeded(t) /\ ChatSucceeded(u)
        /\ th[t].agent # th[u].agent

\* C17 as stated: in every interleaving at most one agent is created for a
\* session key, and all requests of the key work on that one agent.
C17_OneEnginePerKey ==
    \A t \in Threads : \A u \in Threads :
        (t # u /\ th[t].session_id # "none" /\ th[t].session_id = th[u].session_id) =>
            /\ ~(th[t].constructed # 0 /\ th[u].constructed # 0)
            /\ (th[t].agent # 0 /\ th[u].agent # 0) => th[t].agent = th[u].agent

\* the request of thread t was answered with a missing-engine error
MissingEngine(t) ==
    /\ th[t].pc = "done" /\ ~th[t].response.success
    /\ th[t].response.error \in {ERR_NO_AGENT, ERR_AGENT_UNAVAILABLE}

Served(t) == th[t].pc = "done" /\ th[t].op \in {"chat", "clear", "summary"}

\* C18 as stated: no chat, clear or summary request is ever answered with a
\* missing-engine error.
C18_NeverMissingEngine == \A t \in Threads : Served(t) => ~MissingEngine(t)

\* C18 amended: a request is answered with a missing-engine error exactly when
\* its session key has no entry and the construction of the agent fails; then
\* no entry is stored for the key.  In every other case the request works on
\* the agent registered under its key, created by this request on first use.
C18_MissingOnlyOnConstructFailure ==
    \A t \in Threads :
        Served(t) =>
            LET entry_at_check == th[t].registry_at_check[th[t].session_id]
            IN  /\ MissingEngine(t) <=> th[t].construct_failed
                /\ MissingEngine(t) <=> th[t].agent = 0
                /\ entry_at_check # 0 => (~MissingEngine(t) /\ ~th[t].created)
                /\ th[t].construct_failed =>
                      /\ entry_at_check = 0
                      /\ ~th[t].created
                      /\ th[t].invocations = 0
                /\ ~th[t].construct_failed =>
                      /\ th[t].agent # 0
                      /\ th[t].agent <= Len(agents)
                      /\ entry_at_check = 0 => th[t].created

\* C18 witness: a clear request of a session without entry was answered
\* "Agente no disponible" right after a chat request
C18_Witness ==
    \E t \in Threads :
        /\ Served(t) /\ MissingEngine(t)
        /\ th[t].op = "clear" /\ th[t].prev_op = "chat"
        /\ session_agents[th[t].session_id] = 0

\* thread t holds the summary that get_conversation_summary returned
HoldsSummary(t) == th[t].pc = "done" /\ "summary" \in DOMAIN th[t].response

\* C19: the summary of a history h reports total_messages = Len(h),
\* conversation_active = (Len(h) > 0), last_message_time = the timestamp of the
\* last turn (none for an empty h), and a preview of the last min(3, Len(h))
\* turns in their order, with role and timestamp kept and the content cut to
\* its first 100 characters followed by "..." exactly when it is longer than
\* 100 characters.
C19_Summary ==
    \A t \in Threads :
        HoldsSummary(t) =>
            LET h == th[t].history_before
                n == Len(h)
                k == IF n < 3 THEN n ELSE 3
                sm == th[t].response.summary
            IN  /\ sm.total_messages = n
                /\ sm.conversation_active = (n > 0)
                /\ sm.last_message_time = (IF n = 0 THEN NoTime ELSE h[n].timestamp)
                /\ Len(sm.messages_preview) = k
                /\ \A i \in 1..k :
                      LET msg == h[n - k + i]
                          shown == sm.messages_preview[i]
                      IN  /\ shown.role = msg.role
                          /\ shown.timestamp = msg.timestamp
                          /\ Len(msg.content) <= 100 => shown.content = msg.content
                          /\ Len(msg.content) > 100 =>
                                /\ Len(shown.content) = 103
                                /\ SubSeq(shown.content, 1, 100) = SubSeq(msg.content, 1, 100)
                                /\ SubSeq(shown.content, 101, 103) = <<".", ".", ".">>

\* C19 witness: the summary of a history of four turns whose preview shows a
\* content of 100 characters whole and a content of 101 characters cut
C19_Witness ==
    \E t \in Threads :
        /\ HoldsSummary(t) /\ Len(th[t].history_before) = 4
        /\ \E i \in 1..3 : \E j \in 1..3 :
              /\ Len(th[t].response.summary.messages_preview[i].content) = 100
              /\ Len(th[t].response.summary.messages_preview[j].content) = 103

ReadMethods == {"get_conversation_context", "get_conversation_summary", "format_mcp_response"}

\* thread t has just returned from one of the read operations
ReadReturned(t) == th[t].pc = "done" /\ th[t].op \in ReadMethods

\* C20: get_conversation_context, get_conversation_summary and
\* format_mcp_response leave the history as it was when they were called: the
\* same turns in the same order, each with its role, content and timestamp.
C20_ReadsKeepHistory ==
    \A t \in Threads :
        ReadReturned(t) =>
            /\ Len(History(th[t].agent)) = Len(th[t].history_before)
            /\ \A i \in 1..Len(th[t].history_before) :
                  /\ History(th[t].agent)[i].role = th[t].history_before[i].role
                  /\ History(th[t].agent)[i].content = th[t].history_before[i].content
                  /\ History(th[t].agent)[i].timestamp = th[t].history_before[i].timestamp

\* C20 witness: a summary, taken right after a conversation context, returned
\* on a history whose last three turns hold a content of 101 characters
C20_Witness ==
    \E t \in Threads :
        /\ ReadReturned(t) /\ th[t].op = "get_conversation_summary"
        /\ th[t].prev_op = "get_conversation_context"
        /\ \E i \in 1..Len(th[t].history_before) :
              /\ Len(th[t].history_before[i].content) = 101
              /\ Len(th[t].history_before) - i < 3

\* the text matches one of the broad Glue/data keywords
BroadMatch(text) ==
    \E w \in {<<"g", "l", "u", "e">>, <<"d", "a", "t", "a", "b", "a", "s", "e">>,
               <<"t", "a", "b", "l", "e">>, <<"c", "a", "t", "a", "l", "o", "g">>,
               <<"s", "c", "h", "e", "m", "a">>, <<"d", "a", "t", "o", "s">>,
               <<"m", "e", "t", "a", "d", "a", "t", "o", "s">>,
               <<"c", "o", "l", "u", "m", "n", "a">>, <<"b", "d">>,
               <<"b", "a", "s", "e", " ", "d", "e", " ", "d", "a", "t", "o", "s">>} :
        Contains(w, Lower(text))

\* the turn of thread t is past the classification
Classified(t) ==
    th[t].op = "chat" /\ th[t].pc \in {"invoke", "add_user", "add_assistant", "respond", "done"}
                      /\ th[t].user_message # <<>>

\* C21: a catalog operation is selected only for a text that matches the broad
\* keyword set and one of the four specific sets; a text that matches the broad
\* set and none of the specific sets (or a specific set without the broad set)
\* gives no operation, no catalog call and glue_enhanced = false.
C21_TwoTierGate ==
    \A t \in Threads :
        Classified(t) =>
            LET broad == BroadMatch(th[t].user_message)
                specific == MatchedSets(th[t].user_message) # {}
            IN  /\ th[t].fetch.branch # OP_NONE => (broad /\ specific)
                /\ th[t].fetch.calls # <<>> => (broad /\ specific)
                /\ ~(broad /\ specific) =>
                      /\ th[t].fetch.branch = OP_NONE
                      /\ th[t].fetch.calls = <<>>
                      /\ ChatSucceeded(t) => th[t].response.glue_enhanced = FALSE
                /\ (broad /\ specific /\ glue_mcp) => th[t].fetch.branch # OP_NONE

\* C21 witness: a text with a broad keyword and no specific keyword was answered
\* without operation and with glue_enhanced = false
C21_Witness ==
    \E t \in Threads :
        /\ ChatSucceeded(t) /\ th[t].classified
        /\ BroadMatch(th[t].user_message) /\ MatchedSets(th[t].user_message) = {}
        /\ th[t].fetch.branch = OP_NONE /\ ~th[t].response.glue_enhanced

\* the words of a text that start and end with a double quote, without the quotes
QuotedWords(text) ==
    LET words == Split(Lower(text))
    IN  {StripChars(words[i], {"\""}) : i \in {j \in 1..Len(words) :
            /\ Len(words[j]) >= 1
            /\ words[j][1] = "\"" /\ words[j][Len(words[j])] = "\""}}

\* the turn of thread t called search_tables from the SEARCH_TABLES branch
SearchTurn(t) ==
    /\ th[t].op = "chat" /\ th[t].classified
    /\ th[t].fetch.branch = OP_SEARCH_TABLES /\ th[t].fetch.calls # <<>>

\* C22 as stated: the term of a SEARCH_TABLES turn is the quoted word of the
\* text whenever there is one, also when words follow the search keyword; the
\* word after the search keyword is the term only when nothing is quoted.
C22_QuotedTermFirst ==
    \A t \in Threads :
        SearchTurn(t) =>
            LET quoted == QuotedWords(th[t].user_message)
                words == Split(Lower(th[t].user_message))
                term == th[t].fetch.calls[1].arg
            IN  /\ quoted # {} => term \in quoted
                /\ quoted = {} =>
                      \E i \in 1..(Len(words) - 1) :
                          words[i] \in SEARCH_WORDS /\ term = words[i + 1]

\* the turn of thread t was classified LIST_TABLES
ListTablesTurn(t) ==
    th[t].op = "chat" /\ th[t].classified /\ th[t].fetch.branch = OP_LIST_TABLES

\* the least element of a non-empty set of positions
First(positions) == CHOOSE i \in positions : \A j \in positions : i <= j

\* C23: in a LIST_TABLES turn, when a database marker word ("database", "bd",
\* "base") is followed by a token, list-tables is called, once, with that token
\* as database name (the token being the following word of the lowercased text
\* without surrounding quotes, commas and periods); otherwise search-tables is
\* called first with the first word longer than 3 characters that is not one of
\* "tabla", "table", "datos", "data", and nothing is called without such a word.
C23_ListTablesBinding ==
    \A t \in Threads :
        ListTablesTurn(t) =>
            LET words == Split(Lower(th[t].user_message))
                marked == {i \in 1..(Len(words) - 1) :
                              words[i] \in {<<"d", "a", "t", "a", "b", "a", "s", "e">>,
                                            <<"b", "d">>, <<"b", "a", "s", "e">>}}
                token == IF marked = {} THEN <<>>
                         ELSE StripChars(words[First(marked) + 1], {"\"", ",", "."})
                content == {i \in 1..Len(words) :
                               /\ Len(words[i]) > 3
                               /\ words[i] \notin {<<"t", "a", "b", "l", "a">>,
                                                    <<"t", "a", "b", "l", "e">>,
                                                    <<"d", "a", "t", "o", "s">>,
                                                    <<"d", "a", "t", "a">>}}
                calls == th[t].fetch.calls
            IN  IF token # <<>>
                THEN /\ Len(calls) = 1
                     /\ calls[1].op = OP_LIST_TABLES
                     /\ calls[1].arg = token
                ELSE /\ content = {} => calls = <<>>
                     /\ content # {} =>
                           /\ calls # <<>>
                           /\ calls[1].op = OP_SEARCH_TABLES
                           /\ calls[1].arg = words[First(content)]
                           /\ \A k \in 1..Len(calls) : calls[k].op = OP_SEARCH_TABLES

\* C23 witness: list-tables was called with the database name ventas, taken
\* from the quoted and capitalised word after "bd"
C23_Witness ==
    \E t \in Threads :
        /\ ListTablesTurn(t) /\ ChatDone(t)
        /\ th[t].user_message = P_TABLES_DB_QUOTED
        /\ th[t].fetch.calls = <<CatalogCall(OP_LIST_TABLES, <<"v", "e", "n", "t", "a", "s">>,
                                             th[t].fetch.calls[1].answer)>>

\* the messages of a history, as a set
MessagesOf(history) == {history[i] : i \in 1..Len(history)}

\* the registered sessions other than the one thread t works for
OtherSessions(t) ==
    {s \in Sessions : s # th[t].session_id /\ session_agents[s] # 0}

\* two session keys never share an agent or a message
OwnHistories ==
    \A s1, s2 \in Sessions :
        (s1 # s2 /\ session_agents[s1] # 0 /\ session_agents[s2] # 0) =>
            /\ session_agents[s1] # session_agents[s2]
            /\ MessagesOf(History(session_agents[s1]))
                   \cap MessagesOf(History(session_agents[s2])) = {}

\* C24: session isolation.  Every step of a chat turn, a clear or a summary
\* made for one session key leaves the registry entry and the history of
\* every other session key as they were, and at no time do the histories of
\* two session keys hold the same agent or the same message.
C24_SessionIsolation ==
    [][/\ OwnHistories
       /\ OwnHistories'
       /\ \A t \in Threads :
             th'[t] # th[t] =>
                \A s \in Sessions :
                    (s # th'[t].session_id /\ session_agents[s] # 0) =>
                        /\ session_agents'[s] = session_agents[s]
                        /\ agents'[session_agents[s]] = agents[session_agents[s]]]_vars

\* C24 witness: a clear was served for one session key while another key
\* holds the two messages of an earlier turn
C24_Witness ==
    \E t \in Threads :
        /\ th[t].op = "clear" /\ th[t].pc = "done" /\ th[t].agent # 0
        /\ \E s \in OtherSessions(t) : Len(History(session_agents[s])) = 2

\* the phase changes of a chat turn: from rest to classifying (or straight to
\* the answer of a rejected request), then invoking, the two appends, the
\* envelope, and rest
PhaseOrder ==
    {<<"idle", "classify">>, <<"done", "classify">>, <<"idle", "done">>, <<"done", "done">>,
     <<"classify", "invoke">>, <<"invoke", "add_user">>, <<"invoke", "done">>,
     <<"add_user", "add_assistant">>, <<"add_assistant", "respond">>, <<"respond", "done">>}

\* thread t starts a request in this step
Starts(t) == th[t].pc \in {"idle", "done"} /\ th'[t] # th[t]

\* C25: within a chat turn the phases follow one another in the order
\* classify and fetch, compose and invoke, update history, rest.  The catalog
\* is consulted only while classifying, before the model is invoked, and only
\* for a classified operation; the prompt is composed and the model invoked
\* after that, with the fetched context left as it is; the history grows only
\* after the model invocation of the turn has returned a usable answer.
C25_PhaseOrder ==
    [][\A t \in Threads :
          (th'[t] # th[t] /\ th'[t].op = "chat") =>
              LET me == th[t]
                  after == th'[t]
              IN  /\ <<me.pc, after.pc>> \in PhaseOrder
                  /\ (~Starts(t) /\ after.fetch # me.fetch) =>
                        /\ me.pc = "classify" /\ me.invocations = 0
                        /\ after.fetch.calls # <<>> => after.fetch.branch # OP_NONE
                  /\ (~Starts(t) /\ after.invocations # me.invocations) =>
                        /\ me.pc = "invoke" /\ after.invocations = me.invocations + 1
                        /\ after.fetch = me.fetch
                        /\ HasPart(after.full_prompt, "glue_context") <=>
                               me.fetch.glue_context # <<>>
                  /\ (~Starts(t) /\ agents' # agents) =>
                        /\ me.pc \in {"add_user", "add_assistant"}
                        /\ me.invocations = 1 /\ ~me.model_raised
                        /\ me.bedrock_response # Idle.bedrock_response
                  /\ Starts(t) =>
                        \A a \in 1..Len(agents) : agents'[a] = agents[a]]_vars

\* C25 witness: a turn that fetched catalog context, invoked the model once
\* and then appended its two messages
C25_Witness ==
    \E t \in Threads :
        /\ ChatSucceeded(t) /\ th[t].classified
        /\ th[t].fetch.calls # <<>> /\ th[t].fetch.glue_context # <<>>
        /\ th[t].invocations = 1
        /\ Len(History(th[t].agent)) = Len(th[t].history_before) + 2

\* C26: a chat turn that passed validation has called invoke_model exactly once
\* when it ends, whether the call returned or raised; a request that was
\* rejected (no agent, no JSON body, empty prompt) has called it zero times;
\* and no turn ever calls it more than once.
C26_OneInvocation ==
    \A t \in Threads :
        /\ th[t].invocations <= 1
        /\ (ChatDone(t) /\ Validated(t)) => th[t].invocations = 1
        /\ (ChatDone(t) /\ ~Validated(t)) =>
              /\ th[t].invocations = 0
              /\ th[t].response.status \in {400, 500}
        /\ th[t].pc \in {"add_user", "add_assistant", "respond"} => th[t].invocations = 1

\* C26 witness: a validated turn whose model call raised ended with a single
\* invocation
C26_Witness ==
    \E t \in Threads :
        /\ ChatDone(t) /\ Validated(t)
        /\ th[t].model_raised /\ th[t].failed_at = "invoke_model"
        /\ th[t].invocations = 1

\* the positions of the parts of a prompt with a given name
PartsNamed(prompt, name) == {i \in 1..Len(prompt) : prompt[i].part = name}

\* thread t has composed the prompt of its chat turn
Composed(t) == th[t].op = "chat" /\ th[t].invocations = 1

\* C27: the conversation block of the composed prompt holds exactly the last
\* min(10, L) messages of the history as it was before the turn (L its
\* length), in their order, each labelled by its role, under one heading; the
\* block is absent when L = 0; the text of the current turn stands in the one
\* current-turn part that follows the block, which is not a line of the block.
C27_ConversationBlock ==
    \A t \in Threads :
        Composed(t) =>
            LET before == th[t].history_before
                L == Len(before)
                k == IF L < 10 THEN L ELSE 10
                prompt == th[t].full_prompt
                headings == PartsNamed(prompt, "conversation_heading")
                lines == PartsNamed(prompt, "conversation_line")
                turns == PartsNamed(prompt, "user_turn")
            IN  /\ Cardinality(lines) = k
                /\ Cardinality(headings) = (IF L = 0 THEN 0 ELSE 1)
                /\ \A h \in headings :
                      /\ lines = (h + 1)..(h + k)
                      /\ \A i \in 1..k :
                            /\ prompt[h + i].content = before[L - k + i].content
                            /\ prompt[h + i].label =
                                  (IF before[L - k + i].role = "user" THEN "Usuario"
                                   ELSE "Asistente")
                /\ turns = {Len(prompt) - 1}
                /\ prompt[Len(prompt) - 1].content = th[t].user_message
                /\ \A i \in lines : i < Len(prompt) - 1

\* C27 witness: a prompt composed over a history of 12 messages, whose block
\* of ten lines starts with the third message and not with the first
C27_Witness ==
    \E t \in Threads :
        /\ Composed(t)
        /\ Len(th[t].history_before) = 12
        /\ th[t].history_before[1].content # th[t].history_before[3].content
        /\ Cardinality(PartsNamed(th[t].full_prompt, "conversation_line")) = 10

\* the length of the history that the answer of thread t reports
ReportedLength(t) ==
    IF th[t].op = "summary" THEN th[t].response.summary.total_messages
    ELSE th[t].response.conversation_length

\* thread t has answered a summary or a chat request with a length
Reported(t) ==
    /\ th[t].pc = "done" /\ th[t].op \in {"summary", "chat"}
    /\ th[t].response.success

\* C28 as stated: under every interleaving of turns, clears and summaries of
\* one session, no operation observes a history of more than 20 messages: the
\* list never holds more, and no summary and no chat answer reports more.
C28_ObservedWithinCapacity ==
    /\ \A a \in 1..Len(agents) : Len(History(a)) <= 20
    /\ \A t \in Threads : Reported(t) => ReportedLength(t) <= 20

\* both threads have completed a chat turn of one agent with success, and
\* these two turns are all the requests that were made
BothTurnsSucceeded ==
    /\ \A t \in Threads : ChatSucceeded(t) /\ th[t].prev_op = "none"
    /\ \A t, u \in Threads : th[t].agent = th[u].agent
    /\ nreq = 2

\* C29 as stated: when two turns of one session run concurrently and both
\* complete with success, with no clear, none of their four appends is lost:
\* the history holds all four appended messages, after the eviction of the
\* oldest down to 20.
C29_NoAppendLost ==
    BothTurnsSucceeded =>
        \A t \in Threads :
            LET a == th[t].agent
                n == Len(appended[a])
            IN  /\ Len(History(a)) = (IF n < 20 THEN n ELSE 20)
                /\ \A i \in 1..n :
                      i > n - 4 => appended[a][i] \in MessagesOf(History(a))

\* no request is being served
AtRest == \A t \in Threads : th[t].pc \in {"idle", "done"}

\* C30: with the turns of a session served one at a time, whenever no turn is
\* in progress the history has an even number of messages and its roles
\* alternate user, assistant, user, assistant from the first message on; this
\* also holds after the oldest messages were evicted at the capacity of 20.
C30_AlternatingAtRest ==
    AtRest =>
        \A a \in 1..Len(agents) :
            LET h == History(a)
            IN  /\ Len(h) % 2 = 0
                /\ \A i \in 1..Len(h) :
                      h[i].role = (IF i % 2 = 1 THEN "user" ELSE "assistant")

\* C30 witness: at rest after twelve turns, two of which were evicted, the
\* history of 20 messages starts with the user message of the third turn
C30_Witness ==
    /\ AtRest
    /\ \E a \in 1..Len(agents) :
          /\ Len(appended[a]) = 24
          /\ Len(History(a)) = 20
          /\ History(a)[1] = appended[a][5]
          /\ History(a)[1].role = "user"

\* the priority of the family of a model id (1: A, 2: B, 3: C, 4: generic)
FamilyRank(model_id) ==
    CHOOSE r \in MarkersIn(model_id) \cup {4} :
        \A q \in MarkersIn(model_id) \cup {4} : r <= q

\* a field of a response is populated: the response carries it
Populated(response, field) == field \in DOMAIN response

\* C31: the text extracted from a response, per family.  Family A: the text
\* of the first content block, empty when there is no content block.  Family
\* B: the completion field.  Family C: the output text of the first result,
\* empty when there are no results.  Generic: generated_text when the
\* response carries it, otherwise completion when the response carries that,
\* otherwise the empty text.
C31_ExtractionPerFamily ==
    \A t \in Threads :
        Extracted(t) =>
            LET response == th[t].bedrock_response
                text == th[t].assistant_response
                family == FamilyRank(th[t].model_id)
            IN  /\ family = 1 =>
                      IF Populated(response, "content") /\ Len(response.content) > 0
                      THEN text = response.content[1].text
                      ELSE text = <<>>
                /\ family = 2 =>
                      IF Populated(response, "completion")
                      THEN text = response.completion
                      ELSE text = <<>>
                /\ family = 3 =>
                      IF Populated(response, "results") /\ Len(response.results) > 0
                      THEN text = response.results[1].outputText
                      ELSE text = <<>>
                /\ family = 4 =>
                      /\ Populated(response, "generated_text") =>
                            text = response.generated_text
                      /\ (~Populated(response, "generated_text")
                             /\ Populated(response, "completion")) =>
                            text = response.completion
                      /\ (~Populated(response, "generated_text")
                             /\ ~Populated(response, "completion")) =>
                            text = <<>>

\* C31 witness: a generic model answered with both generated_text and
\* completion, and generated_text was taken
C31_Witness ==
    \E t \in Threads :
        /\ Extracted(t) /\ FamilyRank(th[t].model_id) = 4
        /\ DOMAIN th[t].bedrock_response = {"generated_text", "completion"}
        /\ th[t].bedrock_response.generated_text = T_G
        /\ th[t].assistant_response = T_G

\* the priority of the family whose text field a text comes from, in a
\* response that carries a different text for every family
TextRank(text) ==
    IF text = T_A THEN 1 ELSE IF text = T_B THEN 2 ELSE IF text = T_C THEN 3
    ELSE IF text = T_G THEN 4 ELSE 0

\* the response of thread t carries the text fields of all four families
AllFamilies(t) ==
    DOMAIN th[t].bedrock_response = {"content", "completion", "results", "generated_text"}

\* the caller of thread t has formatted the returned body
Formatted(t) == Invoked(t) /\ "mcp" \in DOMAIN th[t].response

\* C32: for every model id the request is built for the same family whose
\* rule extracts the response text, in invoke_conversational_model and in
\* format_mcp_response: the two chains pick the same family for the id, and on
\* a response that carries the fields of every family the text taken is the
\* one of the family whose shape the request has.
C32_SameFamilyBothWays ==
    /\ \A model_id \in ModelIds : request_family(model_id) = response_family(model_id)
    /\ \A t \in Threads :
          /\ (Extracted(t) /\ AllFamilies(t)) =>
                TextRank(th[t].assistant_response) = ShapeRank(th[t].body)
          /\ (Formatted(t) /\ AllFamilies(t)) =>
                /\ ~th[t].response.mcp.raised
                /\ TextRank(th[t].response.mcp.text) = ShapeRank(th[t].body)
          /\ Formatted(t) => th[t].response.mcp.text = th[t].assistant_response

\* C32 witness: an id written in capitals with the markers of families C and
\* A got the request of family A, and both extractions took the text of A
C32_Witness ==
    \E t \in Threads :
        /\ Formatted(t) /\ AllFamilies(t)
        /\ th[t].model_id = ID_TITAN_CLAUDE3
        /\ ShapeRank(th[t].body) = 1
        /\ th[t].assistant_response = T_A
        /\ th[t].response.mcp.text = T_A

\* the last message of a non-empty history
LastMessage(history) == history[Len(history)]

\* C33: when a chat turn served on its own has succeeded, the text of its
\* response envelope is the content of the assistant message the turn
\* appended, which is the last message of the history of its session.
C33_EnvelopeTextIsStoredText ==
    \A t \in Threads :
        ChatSucceeded(t) =>
            LET h == History(th[t].agent)
            IN  /\ h # <<>>
                /\ LastMessage(h).role = "assistant"
                /\ LastMessage(h) = LastMessage(appended[th[t].agent])
                /\ th[t].response.response = LastMessage(h).content

\* C33 witness: a turn answered with the text r1, which is also the content
\* of the last message of the history
C33_Witness ==
    \E t \in Threads :
        /\ ChatSucceeded(t)
        /\ th[t].response.response = T_R1
        /\ LastMessage(History(th[t].agent)).content = T_R1
        /\ Len(History(th[t].agent)) = Len(th[t].history_before) + 2

\* the context flag that the answer of thread t reports
ReportedActive(t) ==
    IF th[t].op = "summary" THEN th[t].response.summary.conversation_active
    ELSE th[t].response.has_context

\* no thread has served a clear, now or in its request before
NoClearRequest == \A u \in Threads : th[u].op # "clear" /\ th[u].prev_op # "clear"

\* C34 as stated: every envelope and every summary reports has_context
\* (conversation_active) true exactly when it reports a length greater than
\* 0, and the envelope of a successful turn that no clear ran alongside
\* reports has_context true and a length from 2 to 20.
C34_ContextFlagAndLength ==
    \A t \in Threads :
        Reported(t) =>
            /\ ReportedActive(t) <=> ReportedLength(t) > 0
            /\ (th[t].op = "chat" /\ NoClearRequest) =>
                  /\ ReportedActive(t)
                  /\ 2 <= ReportedLength(t) /\ ReportedLength(t) <= 20

\* C35: when GlueCatalogMCP failed to initialise (glue_mcp is None), no chat
\* turn calls a catalog operation, whatever its text; every validated turn
\* goes on to the model, with a prompt that has no catalog block; and every
\* successful envelope has glue_enhanced = false.
C35_NoCatalogNoCalls ==
    ~glue_mcp =>
        \A t \in Threads :
            th[t].op = "chat" =>
                /\ th[t].fetch.calls = <<>>
                /\ th[t].fetch.glue_context = <<>>
                /\ ~th[t].classified
                /\ (ChatDone(t) /\ Validated(t)) =>
                      /\ th[t].invocations = 1
                      /\ ~HasPart(th[t].full_prompt, "glue_context")
                /\ ChatSucceeded(t) => ~th[t].response.glue_enhanced

\* C35 witness: without the catalog, a turn whose text asks for the databases
\* of the catalog was answered by the model with glue_enhanced = false
C35_Witness ==
    /\ ~glue_mcp
    /\ \E t \in Threads :
          /\ ChatSucceeded(t)
          /\ th[t].user_message = P_LIST_DB
          /\ th[t].created
          /\ th[t].invocations = 1
          /\ ~th[t].response.glue_enhanced

====
